---- MODULE Spec2Model ----
(***************************************************************************)
(* Model of the risk-analysis engine of generate_report.py: the class      *)
(* ADAuditReportGenerator with its snapshot (self.data), its stored        *)
(* sub-scores (self.risk_scores) and the three analysis methods            *)
(* calculate_risk_scores, get_overall_risk_score and                       *)
(* generate_graph_visualization.                                           *)
(*                                                                         *)
(* Python strings are sequences of one-character strings, so that lower(), *)
(* startswith(), substring search, replace() and f-string concatenation    *)
(* are computed and not assumed.  A JSON value is a record                 *)
(*   [k |-> kind, n |-> number, s |-> string, l |-> list of strings]       *)
(* with kind in absent (key missing), null, bool, int, str, list.          *)
(***************************************************************************)
EXTENDS Integers, Sequences, FiniteSets, TLC

VARIABLES data, risk_scores, calc_result, overall_result, graph_result

vars == <<data, risk_scores, calc_result, overall_result, graph_result>>

---------------------------------------------------------------------------
(* Bounds of the model *)

\* largest number of copies of one user record in a replicated Users list
MaxCopies == 17
\* longest Users list drawn record by record
MaxUsers == 2
\* longest Computers list
MaxComputers == 2
\* longest SecurityGroups list
MaxGroups == 2

---------------------------------------------------------------------------
(* JSON values *)

Absent == [k |-> "absent", n |-> 0, s |-> <<>>, l |-> <<>>]
Null == [k |-> "null", n |-> 0, s |-> <<>>, l |-> <<>>]
BoolV(b) == [k |-> "bool", n |-> IF b THEN 1 ELSE 0, s |-> <<>>, l |-> <<>>]
IntV(i) == [k |-> "int", n |-> i, s |-> <<>>, l |-> <<>>]
StrV(str) == [k |-> "str", n |-> 0, s |-> str, l |-> <<>>]
ListV(lst) == [k |-> "list", n |-> 0, s |-> <<>>, l |-> lst]

\* dict.get(key): a missing key reads as None
Get(v) == IF v.k = "absent" THEN Null ELSE v

\* dict.get(key, default): only a missing key reads as the default
GetD(v, default) == IF v.k = "absent" THEN default ELSE v

\* Python truth value of a JSON value
Truthy(v) ==
  CASE v.k = "bool" -> v.n = 1
    [] v.k = "int" -> v.n # 0
    [] v.k = "str" -> v.s # <<>>
    [] v.k = "list" -> v.l # <<>>
    [] OTHER -> FALSE

\* len(v) raises TypeError for None, numbers and booleans
LenRaises(v) == v.k \in {"null", "int", "bool"}

PyLen(v) ==
  CASE v.k = "str" -> Len(v.s)
    [] v.k = "list" -> Len(v.l)
    [] OTHER -> 0

\* iterating v ("for x in v") raises TypeError for None, numbers and booleans
IterRaises(v) == v.k \in {"null", "int", "bool"}

---------------------------------------------------------------------------
(* String literals of the source *)

DomainAdmins == <<"D","o","m","a","i","n"," ","A","d","m","i","n","s">>
EnterpriseAdmins == <<"E","n","t","e","r","p","r","i","s","e"," ","A","d","m","i","n","s">>
SchemaAdmins == <<"S","c","h","e","m","a"," ","A","d","m","i","n","s">>
AccountOperators == <<"A","c","c","o","u","n","t"," ","O","p","e","r","a","t","o","r","s">>
ProtectedUsers == <<"P","r","o","t","e","c","t","e","d"," ","U","s","e","r","s">>
DES == <<"D","E","S">>
RC4 == <<"R","C","4">>

\* the keys of the scores dictionary
Categories ==
  {"kerberoasting", "delegation", "encryption", "ntlm", "privileged", "inactive"}

---------------------------------------------------------------------------
(* _get_member_of *)

\* variant: a MemberOf string is taken as a one-element list
GetMemberOfWrapped(user) ==
  CASE user.MemberOf.k = "list" -> user.MemberOf.l
    [] user.MemberOf.k = "str" -> <<user.MemberOf.s>>
    [] OTHER -> <<>>

\* the MemberOf value when it is a list, else the empty list
GetMemberOf(user) ==
  IF user.MemberOf.k = "list" THEN user.MemberOf.l ELSE <<>>

\* x in lst
InList(x, lst) == \E i \in 1..Len(lst) : lst[i] = x

---------------------------------------------------------------------------
(* calculate_risk_scores *)

\* self.data.get(section, []) as the list that is iterated
SectionItems(sec) == IF sec.k = "list" THEN sec.items ELSE <<>>

\* iterating self.data.get(section, []) raises when the section is null
SectionRaises(sec) == sec.k = "null"

\* u.get('SPNs') and len(u.get('SPNs', [])) > 0
HasSPNs(u) == Truthy(Get(u.SPNs)) /\ PyLen(GetD(u.SPNs, ListV(<<>>))) > 0

HasSPNsRaises(u) == Truthy(Get(u.SPNs)) /\ LenRaises(u.SPNs)

\* u.get('TrustedForDelegation') or u.get('TrustedToAuthForDelegation')
HasDelegation(u) ==
  Truthy(Get(u.TrustedForDelegation)) \/ Truthy(Get(u.TrustedToAuthForDelegation))

\* variant: the filter without the domain-controller exemption
ComputerHasDelegationAnyRole(c) ==
  \/ Truthy(Get(c.TrustedForDelegation))
  \/ Truthy(Get(c.TrustedToAuthForDelegation))
  \/ /\ Truthy(Get(c.ConstrainedDelegation))
     /\ PyLen(GetD(c.ConstrainedDelegation, ListV(<<>>))) > 0

\* the computers_with_delegation filter
ComputerHasDelegation(c) ==
  /\ \/ Truthy(Get(c.TrustedForDelegation))
     \/ Truthy(Get(c.TrustedToAuthForDelegation))
     \/ /\ Truthy(Get(c.ConstrainedDelegation))
        /\ PyLen(GetD(c.ConstrainedDelegation, ListV(<<>>))) > 0
  /\ ~Truthy(GetD(c.IsDomainController, BoolV(FALSE)))

ComputerHasDelegationRaises(c) ==
  /\ ~Truthy(Get(c.TrustedForDelegation))
  /\ ~Truthy(Get(c.TrustedToAuthForDelegation))
  /\ Truthy(Get(c.ConstrainedDelegation))
  /\ LenRaises(c.ConstrainedDelegation)

\* any(enc in ['DES', 'RC4'] for enc in u.get('EncryptionTypes', [])):
\* a list is searched by element, a string character by character
AnyWeakEnc(u) ==
  LET v == GetD(u.EncryptionTypes, ListV(<<>>))
  IN  CASE v.k = "list" -> \E i \in 1..Len(v.l) : v.l[i] \in {DES, RC4}
        [] v.k = "str" -> \E i \in 1..Len(v.s) : <<v.s[i]>> \in {DES, RC4}
        [] OTHER -> FALSE

AnyWeakEncRaises(u) == IterRaises(GetD(u.EncryptionTypes, ListV(<<>>)))

\* the weak_encryption_users filter
WeakEncryption(u) == AnyWeakEnc(u) \/ Truthy(GetD(u.UseDESKeyOnly, BoolV(FALSE)))

\* u.get(field) and u.get(field) > limit
DaysOver(v, limit) == Truthy(Get(v)) /\ v.k \in {"int", "bool"} /\ v.n > limit

\* comparing a non-empty string or list with a number raises TypeError
DaysOverRaises(v) == Truthy(Get(v)) /\ v.k \in {"str", "list"}

IsDomainAdmin(u) == InList(DomainAdmins, GetMemberOf(u))

\* variant: Protected Users members are counted as well
IsAdminProtectedOrNot(u) == InList(DomainAdmins, GetMemberOf(u))

IsUnprotectedAdmin(u) == IsDomainAdmin(u) /\ ~InList(ProtectedUsers, GetMemberOf(u))

IsInactive(u) == DaysOver(u.DaysSinceLastLogon, 90)

\* variant: a password changed exactly 365 days ago counts as old
HasOldPasswordFromLimit(u) == DaysOver(u.DaysSincePasswordChange, 364)

HasOldPassword(u) == DaysOver(u.DaysSincePasswordChange, 365)

Min(a, b) == IF a <= b THEN a ELSE b

\* self.data.get('Statistics', {}).get('NTLMEventCount', 0) * 2 raises for a null
\* section or count; min(<str or list>, 100) raises
NtlmRaises(stats) ==
  \/ stats.k = "null"
  \/ stats.k = "dict" /\ stats.NTLMEventCount.k \in {"null", "str", "list"}

\* mutant: a missing NTLMEventCount read as 1
NtlmCountDefaultOne(stats) ==
  IF stats.k = "dict" THEN GetD(stats.NTLMEventCount, IntV(1)).n ELSE 1

NtlmCount(stats) ==
  IF stats.k = "dict" THEN GetD(stats.NTLMEventCount, IntV(0)).n ELSE 0

\* variant: the events are counted by the first scoring of an instance only
NtlmScoreFirstRunOnly(stats) ==
  IF DOMAIN risk_scores = {} THEN Min(NtlmCount(stats) * 2, 100) ELSE 0

NtlmScore(stats) == Min(NtlmCount(stats) * 2, 100)

CalcRaises(d) ==
  \/ SectionRaises(d.Users)
  \/ SectionRaises(d.Computers)
  \/ \E i \in 1..Len(SectionItems(d.Users)) :
       LET u == SectionItems(d.Users)[i]
       IN  \/ HasSPNsRaises(u)
           \/ AnyWeakEncRaises(u)
           \/ DaysOverRaises(u.DaysSinceLastLogon)
           \/ DaysOverRaises(u.DaysSincePasswordChange)
  \/ \E i \in 1..Len(SectionItems(d.Computers)) :
       ComputerHasDelegationRaises(SectionItems(d.Computers)[i])
  \/ NtlmRaises(d.Statistics)

CalcScores(d) ==
  LET users == SectionItems(d.Users)
      computers == SectionItems(d.Computers)
  IN  [c \in Categories |->
        CASE c = "kerberoasting" -> Len(SelectSeq(users, HasSPNs)) * 10
          [] c = "delegation" ->
               Len(SelectSeq(users, HasDelegation)) * 15
                 + Len(SelectSeq(computers, ComputerHasDelegation)) * 20
          [] c = "encryption" -> Len(SelectSeq(users, WeakEncryption)) * 5
          [] c = "ntlm" -> NtlmScore(d.Statistics)
          [] c = "privileged" -> Len(SelectSeq(users, IsUnprotectedAdmin)) * 25
          [] c = "inactive" ->
               Len(SelectSeq(users, IsInactive)) * 2
                 + Len(SelectSeq(users, HasOldPassword)) * 3]

---------------------------------------------------------------------------
(* get_overall_risk_score *)

RECURSIVE SumOver(_, _)
\* sum(self.risk_scores.values())
SumOver(f, keys) ==
  IF keys = {} THEN 0
  ELSE LET c == CHOOSE x \in keys : TRUE
       IN  f[c] + SumOver(f, keys \ {c})

TotalScore(scores) == SumOver(scores, DOMAIN scores)

\* mutant: round(x) in place of int(x)
IntOfTenthsRounded(tenths) ==
  IF tenths >= 0 THEN (tenths + 5) \div 10 ELSE -((-tenths + 5) \div 10)

\* int(x) of the float x = tenths / 10: truncation toward zero
IntOfTenths(tenths) ==
  IF tenths >= 0 THEN tenths \div 10 ELSE -((-tenths) \div 10)

\* normalized_score = min(total_score / 10, 100), kept in tenths
NormalizedTenths(scores) == Min(TotalScore(scores), 1000)

OverallRiskScore(scores) ==
  LET t == NormalizedTenths(scores)
  IN  IF t < 300
        THEN [score |-> IntOfTenths(t), cls |-> "risk-low", label |-> "Low Risk"]
      ELSE IF t < 700
        THEN [score |-> IntOfTenths(t), cls |-> "risk-medium", label |-> "Medium Risk"]
      ELSE [score |-> IntOfTenths(t), cls |-> "risk-high", label |-> "High Risk"]

---------------------------------------------------------------------------
(* Python string operations used by generate_graph_visualization *)

UpperAlpha ==
  <<"A","B","C","D","E","F","G","H","I","J","K","L","M",
    "N","O","P","Q","R","S","T","U","V","W","X","Y","Z">>

LowerAlpha ==
  <<"a","b","c","d","e","f","g","h","i","j","k","l","m",
    "n","o","p","q","r","s","t","u","v","w","x","y","z">>

LowerChar(ch) ==
  IF \E i \in 1..Len(UpperAlpha) : UpperAlpha[i] = ch
    THEN LowerAlpha[CHOOSE i \in 1..Len(UpperAlpha) : UpperAlpha[i] = ch]
    ELSE ch

\* str.lower()
Lower(str) == [i \in 1..Len(str) |-> LowerChar(str[i])]

\* str.startswith(prefix)
StartsWith(str, prefix) ==
  Len(str) >= Len(prefix) /\ SubSeq(str, 1, Len(prefix)) = prefix

\* sub in str, and str.find(sub) >= 0
Contains(str, sub) ==
  \E i \in 1..(Len(str) - Len(sub) + 1) : SubSeq(str, i, i + Len(sub) - 1) = sub

\* str.replace('$', '')
StripDollar(str) == SelectSeq(str, LAMBDA ch : ch # "$")

RECURSIVE Join(_, _)
\* sep.join(lst)
Join(sep, lst) ==
  IF lst = <<>> THEN <<>>
  ELSE IF Len(lst) = 1 THEN lst[1]
  ELSE lst[1] \o sep \o Join(sep, Tail(lst))

\* f"{v}" for a string or None
Fmt(v) ==
  CASE v.k = "str" -> v.s
    [] v.k \in {"null", "absent"} -> <<"N","o","n","e">>

\* a method of str (lower, replace) called on v raises AttributeError unless v is a string
StrMethodRaises(v) == v.k # "str"

PrivilegedGroups == {DomainAdmins, EnterpriseAdmins, SchemaAdmins, AccountOperators}

\* excluded_accounts = ['Administrator', 'krbtgt', 'Guest']
ExcludedAccounts ==
  { <<"A","d","m","i","n","i","s","t","r","a","t","o","r">>,
    <<"k","r","b","t","g","t">>,
    <<"G","u","e","s","t">> }

---------------------------------------------------------------------------
(* generate_graph_visualization: node ids *)

\* f"domain_{domain}" with domain = self.data.get('Domain', 'DOMAIN')
DomainValue(d) == GetD(d.Domain, StrV(<<"D","O","M","A","I","N">>))

DomainId(d) == <<"d","o","m","a","i","n","_">> \o Fmt(DomainValue(d))

\* f"user_{name}"
UserId(name) == <<"u","s","e","r","_">> \o Fmt(name)

\* f"group_{group_name}"
GroupId(name) == <<"g","r","o","u","p","_">> \o name

\* f"comp_{computer.get('SamAccountName')}"
CompId(c) == <<"c","o","m","p","_">> \o Fmt(Get(c.SamAccountName))

\* f"user_{user.get('SamAccountName')}": the id the builder gives a user
UserNodeId(u) == UserId(Get(u.SamAccountName))

\* user_sam = user.get('SamAccountName', ''), the name the detection rules use
UserSam(u) == GetD(u.SamAccountName, StrV(<<>>))

---------------------------------------------------------------------------
(* generate_graph_visualization: nodes and edges.  The graph under        *)
(* construction is [nodes, edges, node_id_map, high_risk_users]; the keys  *)
(* of node_id_map are kept as a set.  Of a node the id, label, type,       *)
(* group, risk and spns are kept, of an edge from, to, label, color,       *)
(* attackPath and width (attackPath FALSE and width 0 when the key is not  *)
(* set); shape, size, arrows, dashes and node colours are fixed by these.  *)

\* variant: the weak-encryption test is made before the other three
UserRiskWeakFirst(user) ==
  IF AnyWeakEnc(user) THEN "medium"
  ELSE IF HasSPNs(user) THEN "high"
  ELSE IF HasDelegation(user) THEN "high"
  ELSE IF IsDomainAdmin(user) \/ InList(EnterpriseAdmins, GetMemberOf(user)) THEN "high"
  ELSE "low"

\* variant: the chain without its admin-group branch
UserRiskNoAdminBranch(user) ==
  IF HasSPNs(user) THEN "high"
  ELSE IF HasDelegation(user) THEN "high"
  ELSE IF AnyWeakEnc(user) THEN "medium"
  ELSE "low"

\* the if / elif chain that sets risk
UserRisk(user) ==
  IF HasSPNs(user) THEN "high"
  ELSE IF HasDelegation(user) THEN "high"
  ELSE IF IsDomainAdmin(user) \/ InList(EnterpriseAdmins, GetMemberOf(user)) THEN "high"
  ELSE IF AnyWeakEnc(user) THEN "medium"
  ELSE "low"

UserRiskRaises(user) ==
  \/ HasSPNsRaises(user)
  \/ /\ ~HasSPNs(user)
     /\ ~HasDelegation(user)
     /\ ~(IsDomainAdmin(user) \/ InList(EnterpriseAdmins, GetMemberOf(user)))
     /\ AnyWeakEncRaises(user)

\* risk in ['high', 'medium'] or 'Domain Admins' in self._get_member_of(user)
UserIncluded(user) == UserRisk(user) \in {"high", "medium"} \/ IsDomainAdmin(user)

UserNode(user) ==
  [id |-> UserNodeId(user),
   label |-> GetD(user.SamAccountName, StrV(<<"N","/","A">>)),
   type |-> "user",
   group |->
     LET adm == SelectSeq(GetMemberOf(user),
                          LAMBDA g : g \in {DomainAdmins, EnterpriseAdmins})
     IN  IF adm # <<>> THEN Join(<<",", " ">>, adm) ELSE <<"u","s","e","r">>,
   risk |-> UserRisk(user),
   spns |-> IF Truthy(Get(user.SPNs))
              THEN PyLen(GetD(user.SPNs, ListV(<<>>))) ELSE 0]

Edge(from, to, label, color, attackPath) ==
  [from |-> from, to |-> to, label |-> label, color |-> color,
   attackPath |-> attackPath, width |-> 0]

AddDomain(d) ==
  [nodes |-> << [id |-> DomainId(d), label |-> DomainValue(d), type |-> "domain",
                 group |-> <<"d","o","m","a","i","n">>, risk |-> "", spns |-> 0] >>,
   edges |-> <<>>,
   node_id_map |-> {DomainId(d)},
   high_risk_users |-> <<>>]

AddUser(d, g, user) ==
  IF UserIncluded(user)
    THEN [nodes |-> Append(g.nodes, UserNode(user)),
          edges |-> Append(g.edges,
                           Edge(DomainId(d), UserNodeId(user), "Member", "#848484", FALSE)),
          node_id_map |-> g.node_id_map \cup {UserNodeId(user)},
          high_risk_users |-> Append(g.high_risk_users, user)]
    ELSE g

RECURSIVE AddUsers(_, _, _, _)
\* for user in self.data.get('Users', [])
AddUsers(d, g, users, i) ==
  IF i > Len(users) THEN g
  ELSE AddUsers(d, AddUser(d, g, users[i]), users, i + 1)

\* group.get('Members', []) as the list that is iterated
MemberItems(group) == IF group.Members.k = "list" THEN group.Members.items ELSE <<>>

RECURSIVE AddMembersUnchecked(_, _, _, _)
\* variant: a named member gets its edge whether or not it is a node
AddMembersUnchecked(g, group_id, members, i) ==
  IF i > Len(members) THEN g
  ELSE LET user_sam == Get(members[i])
           user_id == UserId(user_sam)
       IN  AddMembersUnchecked(
             IF Truthy(user_sam)
               THEN [g EXCEPT !.edges =
                       Append(@, Edge(group_id, user_id, "MemberOf", "#dc3545", FALSE))]
               ELSE g,
             group_id, members, i + 1)

RECURSIVE AddMembers(_, _, _, _)
\* for member in group.get('Members', []): a member is kept as its SamAccountName
AddMembers(g, group_id, members, i) ==
  IF i > Len(members) THEN g
  ELSE LET user_sam == Get(members[i])
           user_id == UserId(user_sam)
       IN  AddMembers(
             IF Truthy(user_sam) /\ user_id \in g.node_id_map
               THEN [g EXCEPT !.edges =
                       Append(@, Edge(group_id, user_id, "MemberOf", "#dc3545", FALSE))]
               ELSE g,
             group_id, members, i + 1)

\* group_name in ['Domain Admins', 'Enterprise Admins', 'Schema Admins', 'Account Operators']
GroupIsPrivileged(group) ==
  LET group_name == GetD(group.Name, StrV(<<>>))
  IN  group_name.k = "str" /\ group_name.s \in PrivilegedGroups

AddGroup(d, g, group) ==
  IF GroupIsPrivileged(group)
    THEN LET group_name == group.Name.s
             group_id == GroupId(group_name)
         IN  AddMembers(
               [g EXCEPT
                  !.nodes = Append(@, [id |-> group_id, label |-> StrV(group_name),
                                       type |-> "group", group |-> group_name,
                                       risk |-> "", spns |-> 0]),
                  !.edges = Append(@, Edge(DomainId(d), group_id, "Contains", "#848484", FALSE)),
                  !.node_id_map = @ \cup {group_id}],
               group_id, MemberItems(group), 1)
    ELSE g

RECURSIVE AddGroups(_, _, _, _)
\* for group in self.data.get('SecurityGroups', [])
AddGroups(d, g, groups, i) ==
  IF i > Len(groups) THEN g
  ELSE AddGroups(d, AddGroup(d, g, groups[i]), groups, i + 1)

\* the filter of the computers loop
ComputerIncluded(c) ==
  \/ Truthy(Get(c.TrustedForDelegation))
  \/ Truthy(Get(c.TrustedToAuthForDelegation))
  \/ Truthy(Get(c.IsDomainController))

AddComputer(d, g, c) ==
  IF ComputerIncluded(c)
    THEN [g EXCEPT
            !.nodes = Append(@,
               [id |-> CompId(c),
                label |-> StrV(StripDollar(GetD(c.SamAccountName, StrV(<<"N","/","A">>)).s)),
                type |-> "computer",
                group |-> IF Truthy(Get(c.IsDomainController))
                            THEN <<"D","C">>
                            ELSE <<"c","o","m","p","u","t","e","r">>,
                risk |-> "", spns |-> 0]),
            !.edges = Append(@, Edge(DomainId(d), CompId(c), "Contains", "#848484", FALSE)),
            !.node_id_map = @ \cup {CompId(c)}]
    ELSE g

RECURSIVE AddComputers(_, _, _, _)
\* for computer in self.data.get('Computers', [])
AddComputers(d, g, computers, i) ==
  IF i > Len(computers) THEN g
  ELSE AddComputers(d, AddComputer(d, g, computers[i]), computers, i + 1)

RECURSIVE AddDelegationTargets(_, _, _, _)
\* for computer in self.data.get('Computers', []): if comp_id in node_id_map
AddDelegationTargets(g, user_id, computers, j) ==
  IF j > Len(computers) THEN g
  ELSE AddDelegationTargets(
         IF CompId(computers[j]) \in g.node_id_map
           THEN [g EXCEPT !.edges =
                   Append(@, Edge(user_id, CompId(computers[j]), "DelegatesTo",
                                  "#dc3545", TRUE))]
           ELSE g,
         user_id, computers, j + 1)

RECURSIVE AddDelegations(_, _, _, _)
\* for user in high_risk_users: the delegation relationships
AddDelegations(g, hru, computers, i) ==
  IF i > Len(hru) THEN g
  ELSE AddDelegations(
         IF HasDelegation(hru[i]) /\ UserNodeId(hru[i]) \in g.node_id_map
           THEN AddDelegationTargets(g, UserNodeId(hru[i]), computers, 1)
           ELSE g,
         hru, computers, i + 1)

\* nodes, edges and node_id_map as they stand when attack-path detection starts
BuildGraph(d) ==
  LET g1 == AddUsers(d, AddDomain(d), SectionItems(d.Users), 1)
      g2 == AddGroups(d, g1, SectionItems(d.SecurityGroups), 1)
      g3 == AddComputers(d, g2, SectionItems(d.Computers), 1)
  IN  AddDelegations(g3, g3.high_risk_users, SectionItems(d.Computers), 1)

\* the exceptions the construction loops can raise
BuildRaises(d) ==
  \/ SectionRaises(d.Users)
  \/ \E i \in 1..Len(SectionItems(d.Users)) : UserRiskRaises(SectionItems(d.Users)[i])
  \/ SectionRaises(d.SecurityGroups)
  \/ \E i \in 1..Len(SectionItems(d.SecurityGroups)) :
       LET group == SectionItems(d.SecurityGroups)[i]
       IN  GroupIsPrivileged(group) /\ group.Members.k = "null"
  \/ SectionRaises(d.Computers)
  \/ \E i \in 1..Len(SectionItems(d.Computers)) :
       LET c == SectionItems(d.Computers)[i]
       IN  ComputerIncluded(c)
             /\ StrMethodRaises(GetD(c.SamAccountName, StrV(<<"N","/","A">>)))

---------------------------------------------------------------------------
(* generate_graph_visualization: attack-path detection.  Of a finding the  *)
(* type, severity and path are kept; description and steps are display     *)
(* text, of which only the exceptions their computation can raise are      *)
(* modelled.                                                               *)

Finding(type, severity, path) == [type |-> type, severity |-> severity, path |-> path]

\* variant: the finding is decided by the member list of the group, that is by
\* the MemberOf edge the builder drew from the group to the user
GroupMembershipFindingByMemberList(g, user) ==
  LET user_sam == UserSam(user)
      user_id == UserId(user_sam)
      member_of == GetMemberOf(user)
  IN  IF Lower(user_sam.s) = <<"a","d","m","i","n","i","s","t","r","a","t","o","r">>
        THEN <<>>
      ELSE IF /\ user_id \in g.node_id_map
              /\ \E e \in 1..Len(g.edges) :
                   /\ g.edges[e].from = GroupId(DomainAdmins)
                   /\ g.edges[e].to = user_id
        THEN << Finding("Group Membership",
                        IF InList(ProtectedUsers, member_of) THEN "high" ELSE "critical",
                        <<user_id, GroupId(DomainAdmins)>>) >>
      ELSE <<>>

\* variant: the path of the finding runs from the group to the user
GroupMembershipFindingFromGroup(g, user) ==
  LET user_sam == UserSam(user)
      user_id == UserId(user_sam)
      member_of == GetMemberOf(user)
  IN  IF Lower(user_sam.s) = <<"a","d","m","i","n","i","s","t","r","a","t","o","r">>
        THEN <<>>
      ELSE IF user_id \in g.node_id_map /\ InList(DomainAdmins, member_of)
        THEN << Finding("Group Membership",
                        IF InList(ProtectedUsers, member_of) THEN "high" ELSE "critical",
                        <<GroupId(DomainAdmins), user_id>>) >>
      ELSE <<>>

\* rule 1, one user: the path to Domain Admins via group membership
GroupMembershipFinding(g, user) ==
  LET user_sam == UserSam(user)
      user_id == UserId(user_sam)
      member_of == GetMemberOf(user)
  IN  IF Lower(user_sam.s) = <<"a","d","m","i","n","i","s","t","r","a","t","o","r">>
        THEN <<>>
      ELSE IF user_id \in g.node_id_map /\ InList(DomainAdmins, member_of)
        THEN << Finding("Group Membership",
                        IF InList(ProtectedUsers, member_of) THEN "high" ELSE "critical",
                        <<user_id, GroupId(DomainAdmins)>>) >>
      ELSE <<>>

\* is_likely_service
IsLikelyService(user) ==
  LET user_sam == UserSam(user).s
  IN  \/ StartsWith(Lower(user_sam), <<"s","v","c","_">>)
      \/ Contains(Lower(user_sam), <<"s","e","r","v","i","c","e">>)
      \/ Contains(Lower(GetD(user.Description, StrV(<<>>)).s),
                  <<"s","e","r","v","i","c","e">>)

\* mutant: the finding is emitted without looking the user id up in node_id_map
KerberoastFindingUnchecked(g, user) ==
  LET user_sam == UserSam(user)
      user_id == UserId(user_sam)
  IN  IF Lower(user_sam.s) = <<"k","r","b","t","g","t">>
        THEN <<>>
      ELSE IF HasSPNs(user)
        THEN << Finding("Kerberoasting",
                        IF IsLikelyService(user) THEN "medium" ELSE "high",
                        <<user_id>>) >>
      ELSE <<>>

\* mutant: krbtgt is recognised in lower case only
KerberoastFindingCaseSensitive(g, user) ==
  LET user_sam == UserSam(user)
      user_id == UserId(user_sam)
  IN  IF user_sam.s = <<"k","r","b","t","g","t">>
        THEN <<>>
      ELSE IF HasSPNs(user) /\ user_id \in g.node_id_map
        THEN << Finding("Kerberoasting",
                        IF IsLikelyService(user) THEN "medium" ELSE "high",
                        <<user_id>>) >>
      ELSE <<>>

\* rule 2, one user: Kerberoasting
KerberoastFinding(g, user) ==
  LET user_sam == UserSam(user)
      user_id == UserId(user_sam)
  IN  IF Lower(user_sam.s) = <<"k","r","b","t","g","t">>
        THEN <<>>
      ELSE IF HasSPNs(user) /\ user_id \in g.node_id_map
        THEN << Finding("Kerberoasting",
                        IF IsLikelyService(user) THEN "medium" ELSE "high",
                        <<user_id>>) >>
      ELSE <<>>

\* variant: the type is "Constrained Delegation" whenever the constrained flag is set
DelegationFindingConstrainedFirst(g, user) ==
  IF HasDelegation(user) /\ UserNodeId(user) \in g.node_id_map
    THEN << Finding(IF Truthy(Get(user.TrustedToAuthForDelegation))
                      THEN "Constrained Delegation"
                      ELSE "Unconstrained Delegation",
                    "high", <<UserNodeId(user)>>) >>
    ELSE <<>>

\* rule 3, one user of high_risk_users: delegation
DelegationFinding(g, user) ==
  IF HasDelegation(user) /\ UserNodeId(user) \in g.node_id_map
    THEN << Finding(IF Truthy(Get(user.TrustedForDelegation))
                      THEN "Unconstrained Delegation"
                      ELSE "Constrained Delegation",
                    "high", <<UserNodeId(user)>>) >>
    ELSE <<>>

\* rule 4, one user: AS-REP roasting
AsRepFinding(g, user) ==
  LET user_sam == UserSam(user)
      user_id == UserId(user_sam)
  IN  IF Lower(user_sam.s) \in {Lower(acc) : acc \in ExcludedAccounts}
        THEN <<>>
      ELSE IF Truthy(Get(user.DoesNotRequirePreAuth)) /\ user_id \in g.node_id_map
        THEN << Finding("AS-REP Roasting", "high", <<user_id>>) >>
      ELSE <<>>

\* variant: rule 5 without the domain-controller exemption
ComputerFindingAnyRole(g, c) ==
  IF /\ Truthy(Get(c.TrustedForDelegation))
     /\ CompId(c) \in g.node_id_map
    THEN << Finding("Unconstrained Delegation", "critical", <<CompId(c)>>) >>
    ELSE <<>>

\* rule 5, one computer: unconstrained delegation on a non-DC computer
ComputerFinding(g, c) ==
  IF /\ Truthy(Get(c.TrustedForDelegation))
     /\ ~Truthy(Get(c.IsDomainController))
     /\ CompId(c) \in g.node_id_map
    THEN << Finding("Unconstrained Delegation", "critical", <<CompId(c)>>) >>
    ELSE <<>>

\* the finding, if any, that the numbered rule appends for one record
RuleFinding(rule, g, item) ==
  CASE rule = 1 -> GroupMembershipFinding(g, item)
    [] rule = 2 -> KerberoastFinding(g, item)
    [] rule = 3 -> DelegationFinding(g, item)
    [] rule = 4 -> AsRepFinding(g, item)
    [] rule = 5 -> ComputerFinding(g, item)

RECURSIVE Collect(_, _, _, _)
\* the findings one rule appends, in the order of the records it iterates
Collect(rule, g, items, i) ==
  IF i > Len(items) THEN <<>>
  ELSE RuleFinding(rule, g, items[i]) \o Collect(rule, g, items, i + 1)

\* variant: the AS-REP rule runs before the delegation rule
DetectAttackPathsAsRepEarly(d, g) ==
  LET users == SectionItems(d.Users)
      computers == SectionItems(d.Computers)
  IN  (IF GroupId(DomainAdmins) \in g.node_id_map
         THEN Collect(1, g, users, 1)
         ELSE <<>>)
        \o Collect(2, g, users, 1)
        \o Collect(4, g, users, 1)
        \o Collect(3, g, g.high_risk_users, 1)
        \o Collect(5, g, computers, 1)

\* attack_paths after the five rules, for the graph g built before them
DetectAttackPaths(d, g) ==
  LET users == SectionItems(d.Users)
      computers == SectionItems(d.Computers)
  IN  (IF GroupId(DomainAdmins) \in g.node_id_map
         THEN Collect(1, g, users, 1)
         ELSE <<>>)
        \o Collect(2, g, users, 1)
        \o Collect(3, g, g.high_risk_users, 1)
        \o Collect(4, g, users, 1)
        \o Collect(5, g, computers, 1)

\* the exceptions the five rules can raise
DetectRaises(d, g) ==
  \/ \E i \in 1..Len(SectionItems(d.Users)) :
       LET user == SectionItems(d.Users)[i]
       IN  \/ StrMethodRaises(UserSam(user))
           \/ /\ Lower(UserSam(user).s) # <<"k","r","b","t","g","t">>
              /\ HasSPNs(user)
              /\ UserId(UserSam(user)) \in g.node_id_map
              /\ ~StartsWith(Lower(UserSam(user).s), <<"s","v","c","_">>)
              /\ ~Contains(Lower(UserSam(user).s), <<"s","e","r","v","i","c","e">>)
              /\ StrMethodRaises(GetD(user.Description, StrV(<<>>)))
  \/ \E i \in 1..Len(SectionItems(d.Computers)) :
       LET c == SectionItems(d.Computers)[i]
       IN  /\ Truthy(Get(c.TrustedForDelegation))
           /\ ~Truthy(Get(c.IsDomainController))
           /\ CompId(c) \in g.node_id_map
           /\ StrMethodRaises(GetD(c.SamAccountName, StrV(<<>>)))

\* edge_key = f"{a}_{b}"
EdgeKey(a, b) == a \o <<"_">> \o b

\* attack_path_edge_ids
AttackPathEdgeIds(attack_paths) ==
  UNION { { EdgeKey(attack_paths[p].path[i], attack_paths[p].path[i + 1]) :
              i \in 1..(Len(attack_paths[p].path) - 1) } :
          p \in 1..Len(attack_paths) }

\* variant: the flag is decided by the edge key alone
MarkEdgeKeyOnly(edge, ids) ==
  IF EdgeKey(edge.from, edge.to) \in ids
    THEN [edge EXCEPT !.attackPath = TRUE, !.width = 3, !.color = "#dc3545"]
    ELSE [edge EXCEPT !.attackPath = FALSE]

\* the loop that marks the attack-path edges
MarkEdge(edge, ids) ==
  IF EdgeKey(edge.from, edge.to) \in ids \/ edge.attackPath
    THEN [edge EXCEPT !.attackPath = TRUE, !.width = 3, !.color = "#dc3545"]
    ELSE edge

MarkEdges(edges, attack_paths) ==
  [i \in 1..Len(edges) |-> MarkEdge(edges[i], AttackPathEdgeIds(attack_paths))]

GraphRaises(d) == BuildRaises(d) \/ DetectRaises(d, BuildGraph(d))

\* graphNodes, graphEdges and attackPaths as generate_graph_visualization emits them
GraphOutput(d) ==
  LET g == BuildGraph(d)
      attack_paths == DetectAttackPaths(d, g)
  IN  [status |-> "ok",
       nodes |-> g.nodes,
       edges |-> MarkEdges(g.edges, attack_paths),
       attack_paths |-> attack_paths]

---------------------------------------------------------------------------
(* The snapshots the generator is constructed with *)

\* all sequences over S of length at most n
SeqsUpTo(S, n) == UNION { [1..k -> S] : k \in 0..n }

\* n copies of x
Copies(x, n) == [i \in 1..n |-> x]

Section(items) == [k |-> "list", items |-> items]
AbsentSection == [k |-> "absent", items |-> <<>>]
NullSection == [k |-> "null", items |-> <<>>]

Stats(count) == [k |-> "dict", NTLMEventCount |-> count]
AbsentStats == [k |-> "absent", NTLMEventCount |-> Absent]
NullStats == [k |-> "null", NTLMEventCount |-> Absent]

Snapshot(domain, users, computers, groups, stats) ==
  [Domain |-> domain, Users |-> users, Computers |-> computers,
   SecurityGroups |-> groups, Statistics |-> stats]

NameAlice == <<"a","l","i","c","e">>
NameAdministrator == <<"A","d","m","i","n","i","s","t","r","a","t","o","r">>
NameAdminLower == <<"a","d","m","i","n","i","s","t","r","a","t","o","r">>
NameKrbtgt == <<"k","r","b","t","g","t">>
NameKrbtgtUpper == <<"K","R","B","T","G","T">>
NameSvcSql == <<"s","v","c","_","s","q","l">>
NameGuest == <<"G","u","e","s","t">>
NameNone == <<"N","o","n","e">>
NameWeb == <<"W","E","B","0","1","$">>
NameDc == <<"D","C","0","1","$">>
SpnSql == <<"M","S","S","Q","L","S","v","c","/","h","o","s","t">>
DescService == <<"S","Q","L"," ","S","e","r","v","i","c","e">>
AES == <<"A","E","S","2","5","6">>
DomainCorp == <<"C","O","R","P">>

\* a user record with the given SamAccountName value and every other key missing
PlainUser(name) ==
  [SamAccountName |-> name, Description |-> Absent, SPNs |-> Absent,
   TrustedForDelegation |-> Absent, TrustedToAuthForDelegation |-> Absent,
   EncryptionTypes |-> Absent, UseDESKeyOnly |-> Absent, MemberOf |-> Absent,
   DaysSinceLastLogon |-> Absent, DaysSincePasswordChange |-> Absent,
   DoesNotRequirePreAuth |-> Absent]

\* the risk features a user record of the model can carry
UserFeatures(u) ==
  { u,
    [u EXCEPT !.SPNs = ListV(<<SpnSql>>)],
    [u EXCEPT !.SPNs = ListV(<<SpnSql>>), !.Description = StrV(DescService)],
    [u EXCEPT !.SPNs = ListV(<<SpnSql>>), !.DoesNotRequirePreAuth = BoolV(TRUE)],
    [u EXCEPT !.SPNs = ListV(<<>>), !.EncryptionTypes = ListV(<<AES>>)],
    [u EXCEPT !.TrustedForDelegation = BoolV(TRUE)],
    [u EXCEPT !.TrustedToAuthForDelegation = BoolV(TRUE),
              !.TrustedForDelegation = BoolV(FALSE)],
    [u EXCEPT !.MemberOf = ListV(<<DomainAdmins>>)],
    [u EXCEPT !.MemberOf = ListV(<<DomainAdmins, ProtectedUsers>>)],
    [u EXCEPT !.MemberOf = ListV(<<EnterpriseAdmins>>)],
    [u EXCEPT !.EncryptionTypes = ListV(<<AES, RC4>>)],
    [u EXCEPT !.UseDESKeyOnly = BoolV(TRUE)],
    [u EXCEPT !.DoesNotRequirePreAuth = BoolV(TRUE)],
    [u EXCEPT !.DaysSinceLastLogon = IntV(91), !.DaysSincePasswordChange = IntV(365)],
    [u EXCEPT !.DaysSinceLastLogon = IntV(90), !.DaysSincePasswordChange = IntV(366)] }

UserNames ==
  { StrV(NameAlice), StrV(NameAdministrator), StrV(NameAdminLower), StrV(NameKrbtgt),
    StrV(NameKrbtgtUpper), StrV(NameSvcSql), StrV(NameGuest), StrV(NameNone), Absent }

\* every name with every feature
GraphUsers == UNION { UserFeatures(PlainUser(name)) : name \in UserNames }

\* the user records that lists of two or more users are drawn from
PairUsers ==
  { PlainUser(StrV(NameAlice)),
    [PlainUser(StrV(NameAlice)) EXCEPT !.SPNs = ListV(<<SpnSql>>)],
    [PlainUser(StrV(NameAlice)) EXCEPT !.MemberOf = ListV(<<DomainAdmins>>)],
    [PlainUser(StrV(NameAlice)) EXCEPT !.DoesNotRequirePreAuth = BoolV(TRUE)],
    [PlainUser(StrV(NameAlice)) EXCEPT !.TrustedForDelegation = BoolV(TRUE)],
    [PlainUser(StrV(NameKrbtgtUpper)) EXCEPT !.SPNs = ListV(<<SpnSql>>)],
    [PlainUser(StrV(NameKrbtgt)) EXCEPT !.EncryptionTypes = ListV(<<RC4>>)],
    [PlainUser(StrV(NameAdministrator)) EXCEPT !.MemberOf = ListV(<<DomainAdmins>>)],
    [PlainUser(StrV(NameNone)) EXCEPT !.MemberOf = ListV(<<DomainAdmins, ProtectedUsers>>)],
    [PlainUser(Absent) EXCEPT !.SPNs = ListV(<<SpnSql>>)] }

\* a user that scores in every category, and users that score in one
RiskyUser ==
  [PlainUser(StrV(NameAlice)) EXCEPT
     !.SPNs = ListV(<<SpnSql>>), !.TrustedForDelegation = BoolV(TRUE),
     !.EncryptionTypes = ListV(<<RC4>>), !.MemberOf = ListV(<<DomainAdmins>>),
     !.DaysSinceLastLogon = IntV(120), !.DaysSincePasswordChange = IntV(400)]

ScoreUsers ==
  { RiskyUser,
    [PlainUser(StrV(NameSvcSql)) EXCEPT !.DaysSincePasswordChange = IntV(366)],
    [PlainUser(StrV(NameAlice)) EXCEPT !.MemberOf = ListV(<<DomainAdmins>>)],
    [PlainUser(StrV(NameAlice)) EXCEPT !.EncryptionTypes = ListV(<<DES>>)] }

\* users told apart by their two day counts only
AgedUsers ==
  { [PlainUser(StrV(NameSvcSql)) EXCEPT !.DaysSincePasswordChange = IntV(400)],
    [PlainUser(StrV(NameSvcSql)) EXCEPT
       !.DaysSinceLastLogon = IntV(91), !.DaysSincePasswordChange = IntV(366)],
    [PlainUser(StrV(NameSvcSql)) EXCEPT
       !.DaysSinceLastLogon = IntV(0), !.DaysSincePasswordChange = IntV(0)] }

PlainComputer(name) ==
  [SamAccountName |-> name, TrustedForDelegation |-> Absent,
   TrustedToAuthForDelegation |-> Absent, ConstrainedDelegation |-> Absent,
   IsDomainController |-> Absent]

GraphComputers ==
  { PlainComputer(StrV(NameWeb)),
    [PlainComputer(StrV(NameWeb)) EXCEPT
       !.TrustedForDelegation = BoolV(TRUE), !.IsDomainController = BoolV(FALSE)],
    [PlainComputer(StrV(NameWeb)) EXCEPT !.ConstrainedDelegation = ListV(<<SpnSql>>)],
    [PlainComputer(StrV(NameDc)) EXCEPT
       !.TrustedForDelegation = BoolV(TRUE), !.IsDomainController = BoolV(TRUE)],
    [PlainComputer(Absent) EXCEPT !.TrustedToAuthForDelegation = BoolV(TRUE)] }

\* computers told apart by their delegation settings and their role
DelegationComputers ==
  LET web == PlainComputer(StrV(NameWeb))
      dc == [PlainComputer(StrV(NameDc)) EXCEPT !.IsDomainController = BoolV(TRUE)]
  IN  { [web EXCEPT !.TrustedForDelegation = BoolV(TRUE),
                    !.TrustedToAuthForDelegation = BoolV(TRUE),
                    !.ConstrainedDelegation = ListV(<<SpnSql, SpnSql>>)],
        [web EXCEPT !.TrustedToAuthForDelegation = BoolV(TRUE),
                    !.IsDomainController = BoolV(FALSE)],
        [web EXCEPT !.ConstrainedDelegation = ListV(<<>>)],
        [dc EXCEPT !.TrustedForDelegation = BoolV(TRUE),
                   !.TrustedToAuthForDelegation = BoolV(TRUE),
                   !.ConstrainedDelegation = ListV(<<SpnSql>>)],
        [dc EXCEPT !.ConstrainedDelegation = ListV(<<SpnSql>>)] }

Group(name, members) == [Name |-> name, Members |-> members]

Members(names) == [k |-> "list", items |-> names]

GraphGroups ==
  { Group(StrV(DomainAdmins), Members(<<StrV(NameAlice), StrV(NameAdministrator)>>)),
    Group(StrV(DomainAdmins), [k |-> "absent", items |-> <<>>]),
    Group(StrV(EnterpriseAdmins), Members(<<StrV(NameAlice), Absent>>)),
    Group(StrV(SchemaAdmins), Members(<<StrV(NameNone)>>)),
    Group(StrV(<<"D","o","m","a","i","n"," ","U","s","e","r","s">>),
          Members(<<StrV(NameAlice)>>)) }

\* the SecurityGroups sections that go with every list of users
GroupMenus ==
  { AbsentSection,
    Section(<< Group(StrV(DomainAdmins), Members(<<StrV(NameAlice)>>)) >>),
    Section(<< Group(StrV(EnterpriseAdmins), Members(<<>>)),
               Group(StrV(DomainAdmins),
                     Members(<<StrV(NameAlice), StrV(NameKrbtgtUpper), StrV(NameNone)>>)) >>) }

NtlmCounts == {-60, -5, -1, 0, 1, 49, 50, 51, 1000}

\* one Users list with groups: the graph and the detection rules
GraphSnapshots ==
  { Snapshot(StrV(DomainCorp), Section(users), AbsentSection, groups, AbsentStats) :
      users \in SeqsUpTo(PairUsers, MaxUsers) \cup { <<u>> : u \in GraphUsers },
      groups \in GroupMenus }

\* computers and groups with at most one delegating user
ComputerSnapshots ==
  { Snapshot(Absent, Section(users), Section(computers), Section(groups), Stats(IntV(3))) :
      users \in { <<>>,
                  << [PlainUser(StrV(NameAlice)) EXCEPT
                        !.TrustedToAuthForDelegation = BoolV(TRUE)] >>,
                  << PlainUser(StrV(NameAlice)),
                     [PlainUser(StrV(NameSvcSql)) EXCEPT
                        !.TrustedForDelegation = BoolV(TRUE)] >> },
      computers \in SeqsUpTo(GraphComputers, MaxComputers),
      groups \in { <<>> } \cup { <<gr>> : gr \in GraphGroups } }

GroupSnapshots ==
  { Snapshot(Absent, Section(users), AbsentSection, Section(groups), AbsentStats) :
      users \in { <<>>,
                  << [PlainUser(StrV(NameAlice)) EXCEPT !.EncryptionTypes = ListV(<<RC4>>)],
                     [PlainUser(StrV(NameNone)) EXCEPT
                        !.MemberOf = ListV(<<EnterpriseAdmins, DomainAdmins>>)] >> },
      groups \in SeqsUpTo(GraphGroups, MaxGroups) }

\* many copies of one user record: the score bands
ScoreSnapshots ==
  { Snapshot(Absent, Section(Copies(RiskyUser, n)), AbsentSection, AbsentSection, stats) :
      n \in 0..MaxCopies,
      stats \in { AbsentStats } \cup { Stats(IntV(c)) : c \in NtlmCounts } }
    \cup
  { Snapshot(Absent, Section(Copies(u, n) \o tail), Section(computers), AbsentSection,
             Stats(IntV(1))) :
      u \in ScoreUsers, n \in 0..MaxCopies,
      tail \in { <<>>, << PlainUser(StrV(NameGuest)) >> },
      computers \in { <<>>,
                      << [PlainComputer(StrV(NameWeb)) EXCEPT
                            !.TrustedForDelegation = BoolV(TRUE)] >> } }
    \cup
  { Snapshot(Absent, Section(Copies(u, n)), AbsentSection, AbsentSection, AbsentStats) :
      u \in AgedUsers, n \in 1..MaxCopies }

\* users and computers with one or several delegation settings
DelegationSnapshots ==
  LET both == [PlainUser(StrV(NameSvcSql)) EXCEPT
                 !.TrustedForDelegation = BoolV(TRUE),
                 !.TrustedToAuthForDelegation = BoolV(TRUE)]
      one == [PlainUser(StrV(NameAlice)) EXCEPT !.TrustedToAuthForDelegation = BoolV(TRUE)]
  IN  { Snapshot(Absent, Section(users), Section(computers), AbsentSection, AbsentStats) :
          users \in { <<>>, <<both>>, <<both, one, PlainUser(StrV(NameGuest))>> },
          computers \in { <<c, d>> : c, d \in DelegationComputers } }

\* two users and two computers that every detection rule fires for, in both orders
RichSnapshots ==
  LET u1 == [PlainUser(StrV(NameAlice)) EXCEPT
               !.MemberOf = ListV(<<DomainAdmins>>), !.SPNs = ListV(<<SpnSql>>),
               !.TrustedForDelegation = BoolV(TRUE), !.DoesNotRequirePreAuth = BoolV(TRUE)]
      u2 == [PlainUser(StrV(NameSvcSql)) EXCEPT
               !.MemberOf = ListV(<<DomainAdmins, ProtectedUsers>>),
               !.SPNs = ListV(<<SpnSql>>),
               !.TrustedToAuthForDelegation = BoolV(TRUE),
               !.DoesNotRequirePreAuth = BoolV(TRUE)]
      c1 == [PlainComputer(StrV(NameWeb)) EXCEPT !.TrustedForDelegation = BoolV(TRUE)]
      c2 == [PlainComputer(Absent) EXCEPT !.TrustedForDelegation = BoolV(TRUE)]
      grp == Group(StrV(DomainAdmins), Members(<<StrV(NameAlice), StrV(NameSvcSql)>>))
  IN  { Snapshot(Absent, Section(users), Section(computers), Section(<<grp>>), AbsentStats) :
          users \in { <<u1, u2>>, <<u2, u1>> },
          computers \in { <<c1, c2>>, <<c2, c1>> } }

\* sections that are missing or empty
EmptySnapshots ==
  { Snapshot(domain, users, computers, groups, stats) :
      domain \in { Absent, StrV(DomainCorp) },
      users \in { AbsentSection, Section(<<>>) },
      computers \in { AbsentSection, Section(<<>>) },
      groups \in { AbsentSection, Section(<<>>) },
      stats \in { AbsentStats, Stats(Absent), Stats(IntV(0)) } }

\* one record of each kind with one key null, missing or of another shape
MalformedUsers ==
  LET u == [PlainUser(StrV(NameAlice)) EXCEPT !.SPNs = ListV(<<SpnSql>>)]
      p == PlainUser(StrV(NameAlice))
  IN  { [u EXCEPT !.SamAccountName = Null],
        [u EXCEPT !.SamAccountName = Absent],
        [u EXCEPT !.Description = Null],
        [u EXCEPT !.Description = Absent],
        [u EXCEPT !.EncryptionTypes = Null],
        [u EXCEPT !.MemberOf = Null],
        [u EXCEPT !.MemberOf = StrV(DomainAdmins)],
        [p EXCEPT !.SamAccountName = Null],
        [p EXCEPT !.SPNs = Null],
        [p EXCEPT !.SPNs = IntV(5)],
        [p EXCEPT !.SPNs = StrV(SpnSql)],
        [p EXCEPT !.EncryptionTypes = Null],
        [p EXCEPT !.EncryptionTypes = StrV(RC4)],
        [p EXCEPT !.MemberOf = Null],
        [p EXCEPT !.DaysSinceLastLogon = Null],
        [p EXCEPT !.DaysSinceLastLogon = StrV(<<"1","2","0">>)],
        [p EXCEPT !.DaysSincePasswordChange = Null],
        [p EXCEPT !.DaysSincePasswordChange = ListV(<<SpnSql>>)] }

MalformedComputers ==
  LET c == [PlainComputer(StrV(NameWeb)) EXCEPT !.TrustedForDelegation = BoolV(TRUE)]
      p == PlainComputer(StrV(NameWeb))
  IN  { [c EXCEPT !.SamAccountName = Null],
        [c EXCEPT !.SamAccountName = Absent],
        [c EXCEPT !.ConstrainedDelegation = IntV(1)],
        [p EXCEPT !.SamAccountName = Null],
        [p EXCEPT !.ConstrainedDelegation = Null],
        [p EXCEPT !.ConstrainedDelegation = IntV(1)],
        [p EXCEPT !.ConstrainedDelegation = StrV(SpnSql)] }

MalformedGroups ==
  { Group(Null, Members(<<StrV(NameAlice)>>)),
    Group(Absent, Members(<<StrV(NameAlice)>>)),
    Group(StrV(DomainAdmins), [k |-> "null", items |-> <<>>]),
    Group(StrV(DomainAdmins), [k |-> "absent", items |-> <<>>]),
    Group(StrV(DomainAdmins), Members(<<Null>>)),
    Group(StrV(<<"D","o","m","a","i","n"," ","U","s","e","r","s">>),
          [k |-> "null", items |-> <<>>]) }

MalformedSnapshots ==
  LET user == << [PlainUser(StrV(NameAlice)) EXCEPT !.SPNs = ListV(<<SpnSql>>)] >>
      comp == << [PlainComputer(StrV(NameWeb)) EXCEPT !.TrustedForDelegation = BoolV(TRUE)] >>
      grp == << Group(StrV(DomainAdmins), Members(<<StrV(NameAlice)>>)) >>
  IN  { Snapshot(Null, Section(<<u>>), Section(comp), Section(grp), AbsentStats) :
          u \in MalformedUsers }
        \cup
      { Snapshot(Absent, Section(user), Section(<<c>>), Section(grp), AbsentStats) :
          c \in MalformedComputers }
        \cup
      { Snapshot(Absent, Section(user), Section(comp), Section(<<gr>>), AbsentStats) :
          gr \in MalformedGroups }
        \cup
      { Snapshot(Absent, Section(user), Section(comp), Section(grp), stats) :
          stats \in { NullStats, Stats(Null), Stats(StrV(<<"7">>)), Stats(BoolV(TRUE)) } }
        \cup
      { Snapshot(Absent, NullSection, Section(comp), Section(grp), AbsentStats),
        Snapshot(Absent, Section(user), NullSection, Section(grp), AbsentStats),
        Snapshot(Absent, Section(user), Section(comp), NullSection, AbsentStats) }

Snapshots ==
  GraphSnapshots \cup ComputerSnapshots \cup GroupSnapshots \cup ScoreSnapshots
    \cup DelegationSnapshots \cup RichSnapshots \cup EmptySnapshots \cup MalformedSnapshots

---------------------------------------------------------------------------
(* The generator: __init__ and its three analysis methods *)

NoScores == [c \in {} |-> 0]

NoGraph == [status |-> "none", nodes |-> <<>>, edges |-> <<>>, attack_paths |-> <<>>]

\* __init__: self.data = json_data, self.risk_scores = {}; nothing has been returned yet
Init ==
  /\ data \in Snapshots
  /\ risk_scores = NoScores
  /\ calc_result = [status |-> "none", scores |-> NoScores]
  /\ overall_result = [status |-> "none", score |-> 0, cls |-> "", label |-> ""]
  /\ graph_result = NoGraph

\* variant: the scoring writes the normalised membership back into the user
\* records, an empty list in place of a MemberOf that is no list
CalculateRiskScoresNormalising ==
  /\ IF CalcRaises(data)
       THEN /\ calc_result' = [status |-> "raised", scores |-> NoScores]
            /\ UNCHANGED risk_scores
       ELSE /\ risk_scores' = CalcScores(data)
            /\ calc_result' = [status |-> "ok", scores |-> risk_scores']
  /\ data' =
       IF data.Users.k = "list"
         THEN [data EXCEPT !.Users.items =
                 [i \in 1..Len(data.Users.items) |->
                    [data.Users.items[i] EXCEPT
                       !.MemberOf = IF @.k \in {"list", "absent"} THEN @ ELSE ListV(<<>>)]]]
         ELSE data
  /\ UNCHANGED <<overall_result, graph_result>>

\* calculate_risk_scores(): stores and returns the scores, or raises before storing
CalculateRiskScores ==
  /\ IF CalcRaises(data)
       THEN /\ calc_result' = [status |-> "raised", scores |-> NoScores]
            /\ UNCHANGED risk_scores
       ELSE /\ risk_scores' = CalcScores(data)
            /\ calc_result' = [status |-> "ok", scores |-> risk_scores']
  /\ UNCHANGED <<data, overall_result, graph_result>>

\* variant: the overall score is computed from the snapshot, not from what
\* the last scoring stored
GetOverallRiskScoreFromSnapshot ==
  /\ overall_result' =
       LET r == OverallRiskScore(IF CalcRaises(data) THEN NoScores ELSE CalcScores(data))
       IN  [status |-> "ok", score |-> r.score, cls |-> r.cls, label |-> r.label]
  /\ UNCHANGED <<data, risk_scores, calc_result, graph_result>>

\* get_overall_risk_score(): returns (score, class, label) from self.risk_scores
GetOverallRiskScore ==
  /\ overall_result' =
       LET r == OverallRiskScore(risk_scores)
       IN  [status |-> "ok", score |-> r.score, cls |-> r.cls, label |-> r.label]
  /\ UNCHANGED <<data, risk_scores, calc_result, graph_result>>

\* generate_graph_visualization(): emits nodes, edges and attack paths, or raises
GenerateGraphVisualization ==
  /\ graph_result' =
       IF GraphRaises(data)
         THEN [status |-> "raised", nodes |-> <<>>, edges |-> <<>>, attack_paths |-> <<>>]
         ELSE GraphOutput(data)
  /\ UNCHANGED <<data, risk_scores, calc_result, overall_result>>

Next ==
  \/ CalculateRiskScores
  \/ GetOverallRiskScore
  \/ GenerateGraphVisualization

Spec == Init /\ [][Next]_vars

---------------------------------------------------------------------------
(* Claims *)

UsersOf(d) == SectionItems(d.Users)

NodeIds(nodes) == { nodes[i].id : i \in 1..Len(nodes) }

\* C1: the overall score returned by get_overall_risk_score is an integer in
\* [0,100], for every snapshot and every integer NTLMEventCount.
C1_OverallInRange ==
  overall_result.status = "ok" =>
    overall_result.score >= 0 /\ overall_result.score <= 100

\* C2: every sub-score returned by calculate_risk_scores is >= 0 and the ntlm
\* sub-score is min(2 x NTLMEventCount, 100).
C2_SubScoresNonNegative ==
  calc_result.status = "ok" =>
    /\ \A c \in Categories : calc_result.scores[c] >= 0
    /\ LET n == IF data.Statistics.k = "dict" /\ data.Statistics.NTLMEventCount.k # "absent"
                  THEN data.Statistics.NTLMEventCount.n ELSE 0
       IN  calc_result.scores["ntlm"] = (IF 2 * n < 100 THEN 2 * n ELSE 100)

\* C3: every id in the path of every emitted finding is the id of a node of the
\* graph built in the same run.
C3_PathIdsAreNodes ==
  graph_result.status = "ok" =>
    \A p \in 1..Len(graph_result.attack_paths) :
      \A i \in 1..Len(graph_result.attack_paths[p].path) :
        graph_result.attack_paths[p].path[i] \in NodeIds(graph_result.nodes)

\* C3 witness: a run that emitted a two-node Group Membership finding and a
\* single-node finding.
C3_Witness ==
  /\ graph_result.status = "ok"
  /\ \E p \in 1..Len(graph_result.attack_paths) :
       /\ graph_result.attack_paths[p].type = "Group Membership"
       /\ Len(graph_result.attack_paths[p].path) = 2
  /\ \E p \in 1..Len(graph_result.attack_paths) :
       Len(graph_result.attack_paths[p].path) = 1

\* C4: no two nodes of the graph have the same id, also when two records of the
\* snapshot carry the same name.
C4_NodeIdsUnique ==
  graph_result.status = "ok" =>
    \A i, j \in 1..Len(graph_result.nodes) :
      i # j => graph_result.nodes[i].id # graph_result.nodes[j].id

\* C5: every user whose membership list contains "Domain Admins" and whose name
\* is not "Administrator" in any letter case gets a Group Membership finding,
\* "high" when the user is in "Protected Users" and "critical" otherwise, in
\* every snapshot.
C5_AdminFindingEmitted ==
  graph_result.status = "ok" =>
    \A u \in 1..Len(UsersOf(data)) :
      LET user == UsersOf(data)[u]
      IN  ( /\ user.SamAccountName.k = "str"
            /\ Lower(user.SamAccountName.s) # NameAdminLower
            /\ user.MemberOf.k = "list"
            /\ \E m \in 1..Len(user.MemberOf.l) : user.MemberOf.l[m] = DomainAdmins )
          =>
          \E p \in 1..Len(graph_result.attack_paths) :
            LET f == graph_result.attack_paths[p]
            IN  /\ f.type = "Group Membership"
                /\ f.path[1] = <<"u","s","e","r","_">> \o user.SamAccountName.s
                /\ f.severity =
                     IF \E m \in 1..Len(user.MemberOf.l) : user.MemberOf.l[m] = ProtectedUsers
                       THEN "high" ELSE "critical"

\* C6: a user named "krbtgt" in any letter case that has SPNs gets no
\* Kerberoasting finding whose path is that user.
C6_NoKerberoastForKrbtgt ==
  graph_result.status = "ok" =>
    \A u \in 1..Len(UsersOf(data)) :
      LET user == UsersOf(data)[u]
      IN  ( /\ user.SamAccountName.k = "str"
            /\ Lower(user.SamAccountName.s) = NameKrbtgt
            /\ user.SPNs.k = "list" /\ Len(user.SPNs.l) > 0 )
          =>
          ~ \E p \in 1..Len(graph_result.attack_paths) :
              /\ graph_result.attack_paths[p].type = "Kerberoasting"
              /\ graph_result.attack_paths[p].path =
                   << <<"u","s","e","r","_">> \o user.SamAccountName.s >>

\* C6 witness: a run over a user "KRBTGT" with SPNs, who is a node of the graph,
\* beside another user for whom a Kerberoasting finding was emitted.
C6_Witness ==
  /\ graph_result.status = "ok"
  /\ \E u \in 1..Len(UsersOf(data)) :
       /\ UsersOf(data)[u].SamAccountName = StrV(NameKrbtgtUpper)
       /\ UsersOf(data)[u].SPNs.k = "list" /\ Len(UsersOf(data)[u].SPNs.l) > 0
  /\ (<<"u","s","e","r","_">> \o NameKrbtgtUpper) \in NodeIds(graph_result.nodes)
  /\ \E p \in 1..Len(graph_result.attack_paths) :
       graph_result.attack_paths[p].type = "Kerberoasting"

\* the score and label that go with a sum S of sub-scores: S/10 capped at 100 and
\* truncated toward zero, "Low Risk" below 30, "Medium Risk" below 70
ScoreMatchesSum(o, S) ==
  LET capped == IF S < 1000 THEN S ELSE 1000
  IN  /\ IF capped >= 0
           THEN 10 * o.score <= capped /\ capped < 10 * o.score + 10
           ELSE 10 * o.score >= capped /\ capped > 10 * o.score - 10
      /\ (o.label = "Low Risk") <=> (o.score < 30)
      /\ (o.label = "Medium Risk") <=> (o.score >= 30 /\ o.score < 70)
      /\ (o.label = "High Risk") <=> (o.score >= 70)
      /\ o.label \in {"Low Risk", "Medium Risk", "High Risk"}

RECURSIVE SumSeq(_)
SumSeq(s) == IF s = <<>> THEN 0 ELSE Head(s) + SumSeq(Tail(s))

\* the sum of the stored sub-scores, category by category
StoredSum(scores) ==
  IF DOMAIN scores = {} THEN 0
  ELSE SumSeq(<< scores["kerberoasting"], scores["delegation"], scores["encryption"],
                 scores["ntlm"], scores["privileged"], scores["inactive"] >>)

\* C7: every call of get_overall_risk_score returns min(S/10, 100) truncated to
\* an integer, S the sum of the stored sub-scores, with the label of the band of
\* that integer.
C7_OverallIsTruncatedTenth ==
  [][GetOverallRiskScore => ScoreMatchesSum(overall_result', StoredSum(risk_scores'))]_vars

\* C7 witness: a score returned after a calculation whose sum is no multiple of
\* ten and rounds up, in the medium band.
C7_Witness ==
  /\ calc_result.status = "ok"
  /\ overall_result.status = "ok"
  /\ StoredSum(risk_scores) % 10 >= 5
  /\ StoredSum(risk_scores) >= 300
  /\ overall_result.label = "Medium Risk"

\* a snapshot with no users, no computers, no groups and no events
IsEmptySnapshot(d) ==
  /\ d.Users.k = "absent" \/ (d.Users.k = "list" /\ d.Users.items = <<>>)
  /\ d.Computers.k = "absent" \/ (d.Computers.k = "list" /\ d.Computers.items = <<>>)
  /\ d.SecurityGroups.k = "absent"
       \/ (d.SecurityGroups.k = "list" /\ d.SecurityGroups.items = <<>>)
  /\ \/ d.Statistics.k = "absent"
     \/ /\ d.Statistics.k = "dict"
        /\ d.Statistics.NTLMEventCount \in {Absent, IntV(0)}

\* C8: on an empty snapshot every sub-score is 0, the overall score is 0 with
\* label "Low Risk", the graph is the domain node alone with no edge, and no
\* attack path is emitted.
C8_EmptySnapshot ==
  IsEmptySnapshot(data) =>
    /\ calc_result.status # "raised"
    /\ calc_result.status = "ok" => \A c \in Categories : calc_result.scores[c] = 0
    /\ overall_result.status = "ok" =>
         overall_result.score = 0 /\ overall_result.label = "Low Risk"
    /\ graph_result.status # "raised"
    /\ graph_result.status = "ok" =>
         /\ Len(graph_result.nodes) = 1
         /\ graph_result.nodes[1].type = "domain"
         /\ graph_result.edges = <<>>
         /\ graph_result.attack_paths = <<>>

\* C8 witness: all three methods have run on an empty snapshot.
C8_Witness ==
  /\ IsEmptySnapshot(data)
  /\ calc_result.status = "ok"
  /\ overall_result.status = "ok"
  /\ graph_result.status = "ok"

\* C9: calculate_risk_scores never raises, whatever field is absent, null or of
\* the wrong shape.
C9_CalculateNeverRaises == calc_result.status # "raised"

\* C10: generate_graph_visualization never raises when a field of a user, a
\* computer or a group is absent, null or of the wrong shape.
C10_GraphNeverRaises ==
  ( /\ data.Users.k # "null"
    /\ data.Computers.k # "null"
    /\ data.SecurityGroups.k # "null" )
  => graph_result.status # "raised"

\* the findings of one type among the emitted attack paths
FindingsOfType(paths, type) ==
  { i \in 1..Len(paths) : paths[i].type = type }

\* C11: _get_member_of gives the MemberOf list itself when it is a list and the
\* empty list when it is absent, null or of another shape; what scoring, graph
\* building and detection read of a membership that is not a list is the empty
\* list: such a user adds nothing to the privileged sub-score, is no Domain
\* Admin for the graph and starts no Group Membership finding.
C11_MemberOfHelper ==
  LET users == UsersOf(data)
      NonList(u) == u.MemberOf.k # "list"
  IN  /\ \A i \in 1..Len(users) :
           /\ ~NonList(users[i]) => GetMemberOf(users[i]) = users[i].MemberOf.l
           /\ NonList(users[i]) =>
                /\ GetMemberOf(users[i]) = <<>>
                /\ ~IsDomainAdmin(users[i])
                /\ ~IsUnprotectedAdmin(users[i])
      /\ (\A i \in 1..Len(users) : NonList(users[i])) =>
           /\ calc_result.status = "ok" => calc_result.scores["privileged"] = 0
           /\ graph_result.status = "ok" =>
                FindingsOfType(graph_result.attack_paths, "Group Membership") = {}

\* C11 witness: a snapshot whose user carries the string "Domain Admins" as
\* MemberOf has been scored and drawn without a raise.
C11_Witness ==
  LET users == UsersOf(data)
  IN  /\ Len(users) > 0
      /\ \A i \in 1..Len(users) : users[i].MemberOf = StrV(DomainAdmins)
      /\ calc_result.status = "ok"
      /\ calc_result.scores["privileged"] = 0
      /\ graph_result.status = "ok"
      /\ Len(graph_result.nodes) > 1

CountFindings(paths, type, path) ==
  Cardinality({ p \in FindingsOfType(paths, type) : paths[p].path = path })

\* a record whose account name is a string or is missing
NameReadable(r) == r.SamAccountName.k \in {"str", "absent"}

\* C13: every user record with at least one SPN whose name is not "krbtgt" in
\* any letter case counts 10 in the kerberoasting sub-score and gets exactly one
\* Kerberoasting finding whose path is its node id, of severity "medium" when
\* the name starts with "svc_" or name or description contain "service" in any
\* letter case, and "high" otherwise.
C13_KerberoastPerUser ==
  LET users == UsersOf(data)
      WithSPN(u) == u.SPNs.k = "list" /\ u.SPNs.l # <<>>
      Roastable(u) ==
        /\ WithSPN(u)
        /\ NameReadable(u)
        /\ Lower(u.SamAccountName.s) # <<"k","r","b","t","g","t">>
      Service(u) ==
        \/ StartsWith(Lower(u.SamAccountName.s), <<"s","v","c","_">>)
        \/ Contains(Lower(u.SamAccountName.s), <<"s","e","r","v","i","c","e">>)
        \/ /\ u.Description.k = "str"
           /\ Contains(Lower(u.Description.s), <<"s","e","r","v","i","c","e">>)
      SameNode(u) ==
        { j \in 1..Len(users) :
            Roastable(users[j]) /\ UserNodeId(users[j]) = UserNodeId(u) }
  IN  /\ calc_result.status = "ok" =>
           calc_result.scores["kerberoasting"] >=
             10 * Cardinality({ i \in 1..Len(users) : WithSPN(users[i]) })
      /\ graph_result.status = "ok" =>
           \A i \in 1..Len(users) :
             Roastable(users[i]) =>
               /\ CountFindings(graph_result.attack_paths, "Kerberoasting",
                                <<UserNodeId(users[i])>>)
                    = Cardinality(SameNode(users[i]))
               /\ \E p \in FindingsOfType(graph_result.attack_paths, "Kerberoasting") :
                    /\ graph_result.attack_paths[p].path = <<UserNodeId(users[i])>>
                    /\ graph_result.attack_paths[p].severity =
                         IF Service(users[i]) THEN "medium" ELSE "high"

ComputersOf(d) == SectionItems(d.Computers)

\* C14: every computer record whose unconstrained-delegation flag is set and
\* that is no domain controller counts 20 in the delegation sub-score and gets
\* exactly one finding of type "Unconstrained Delegation", severity "critical",
\* whose path is its node id; a domain controller gets none.  The findings on
\* one node id are as many as the flagged non-DC records that carry that id.
C14_UnconstrainedComputers ==
  LET comps == ComputersOf(data)
      Flagged(c) ==
        /\ c.TrustedForDelegation.k = "bool" /\ c.TrustedForDelegation.n = 1
        /\ ~(c.IsDomainController.k = "bool" /\ c.IsDomainController.n = 1)
      SameNode(c) ==
        { j \in 1..Len(comps) : Flagged(comps[j]) /\ CompId(comps[j]) = CompId(c) }
  IN  /\ calc_result.status = "ok" =>
           calc_result.scores["delegation"] >=
             20 * Cardinality({ j \in 1..Len(comps) : Flagged(comps[j]) })
      /\ graph_result.status = "ok" =>
           \A j \in 1..Len(comps) :
             NameReadable(comps[j]) =>
               /\ CountFindings(graph_result.attack_paths, "Unconstrained Delegation",
                                <<CompId(comps[j])>>)
                    = Cardinality(SameNode(comps[j]))
               /\ \A p \in FindingsOfType(graph_result.attack_paths,
                                           "Unconstrained Delegation") :
                    graph_result.attack_paths[p].path = <<CompId(comps[j])>> =>
                      graph_result.attack_paths[p].severity = "critical"

\* C14 witness: a flagged member server and a flagged domain controller have
\* been scored and drawn; the server has its finding, the controller none.
C14_Witness ==
  LET comps == ComputersOf(data)
      Flag(c) == c.TrustedForDelegation = BoolV(TRUE)
  IN  /\ calc_result.status = "ok"
      /\ calc_result.scores["delegation"] = 20
      /\ graph_result.status = "ok"
      /\ \E j, k \in 1..Len(comps) :
           /\ Flag(comps[j]) /\ comps[j].IsDomainController = BoolV(FALSE)
           /\ Flag(comps[k]) /\ comps[k].IsDomainController = BoolV(TRUE)
           /\ CountFindings(graph_result.attack_paths, "Unconstrained Delegation",
                            <<CompId(comps[j])>>) = 1
           /\ CountFindings(graph_result.attack_paths, "Unconstrained Delegation",
                            <<CompId(comps[k])>>) = 0

\* C15: every user whose does-not-require-preauth flag is set and whose name is
\* none of "Administrator", "krbtgt" and "Guest" in any letter case gets an
\* AS-REP Roasting finding of severity "high" whose path is its node id; a user
\* with one of the three names gets none.
C15_AsRepPerUser ==
  LET users == UsersOf(data)
      NoPreAuth(u) == u.DoesNotRequirePreAuth.k = "bool" /\ u.DoesNotRequirePreAuth.n = 1
      Excluded(u) ==
        Lower(u.SamAccountName.s) \in
          { <<"a","d","m","i","n","i","s","t","r","a","t","o","r">>,
            <<"k","r","b","t","g","t">>,
            <<"g","u","e","s","t">> }
      AsRep(u) ==
        { p \in FindingsOfType(graph_result.attack_paths, "AS-REP Roasting") :
            graph_result.attack_paths[p].path = <<UserNodeId(u)>> }
  IN  graph_result.status = "ok" =>
        \A i \in 1..Len(users) :
          NameReadable(users[i]) =>
            /\ (NoPreAuth(users[i]) /\ ~Excluded(users[i])) =>
                 \E p \in AsRep(users[i]) :
                   graph_result.attack_paths[p].severity = "high"
            /\ Excluded(users[i]) => AsRep(users[i]) = {}

\* C16: the privileged sub-score is 25 for every user whose membership list
\* holds "Domain Admins" and not "Protected Users"; a Domain Admin who is a
\* Protected User, and a user whose MemberOf is absent or no list, add nothing.
C16_PrivilegedScore ==
  LET users == UsersOf(data)
      Member(u, grp) ==
        u.MemberOf.k = "list" /\ \E m \in 1..Len(u.MemberOf.l) : u.MemberOf.l[m] = grp
      Counted(u) == Member(u, DomainAdmins) /\ ~Member(u, ProtectedUsers)
  IN  calc_result.status = "ok" =>
        calc_result.scores["privileged"] =
          25 * Cardinality({ i \in 1..Len(users) : Counted(users[i]) })

\* C16 witness: a scored snapshot of two users, an unprotected Domain Admin
\* that counts 25 and a protected Domain Admin that adds nothing.
C16_Witness ==
  LET users == UsersOf(data)
  IN  /\ calc_result.status = "ok"
      /\ calc_result.scores["privileged"] = 25
      /\ Len(users) = 2
      /\ \E i \in 1..Len(users) :
           /\ InList(DomainAdmins, users[i].MemberOf.l)
           /\ InList(ProtectedUsers, users[i].MemberOf.l)

\* the positions of the users whose day count is a number above the limit
IdleUsers(d) ==
  { i \in 1..Len(UsersOf(d)) :
      /\ UsersOf(d)[i].DaysSinceLastLogon.k = "int"
      /\ UsersOf(d)[i].DaysSinceLastLogon.n > 90 }

OldPasswordUsers(d) ==
  { i \in 1..Len(UsersOf(d)) :
      /\ UsersOf(d)[i].DaysSincePasswordChange.k = "int"
      /\ UsersOf(d)[i].DaysSincePasswordChange.n > 365 }

\* C17: the inactive sub-score is 2 for every user whose days since the last
\* logon exceed 90 plus 3 for every user whose days since the password change
\* exceed 365, a user over both limits counting in both; a count of exactly 90
\* or 365, of zero, or a missing one counts in neither.  Twelve users over the
\* password limit and nothing else give inactive 36 and, at the next call of
\* get_overall_risk_score, the overall score 3 with the label "Low Risk".
C17_InactiveScore ==
  [][ /\ calc_result'.status = "ok" =>
           calc_result'.scores["inactive"] =
             2 * Cardinality(IdleUsers(data')) + 3 * Cardinality(OldPasswordUsers(data'))
      /\ ( /\ calc_result.status = "ok"
           /\ Len(UsersOf(data)) = 12
           /\ Cardinality(OldPasswordUsers(data)) = 12
           /\ IdleUsers(data) = {}
           /\ StoredSum(risk_scores) = risk_scores["inactive"]
           /\ GetOverallRiskScore ) =>
           ( /\ risk_scores["inactive"] = 36
             /\ overall_result'.score = 3
             /\ overall_result'.label = "Low Risk" ) ]_vars

\* C17 witness: twelve users with a password older than 365 days and nothing
\* else have been scored, and the overall score has been read after that.
C17_Witness ==
  LET users == UsersOf(data)
  IN  /\ Len(users) = 12
      /\ \A i \in 1..Len(users) :
           /\ users[i].DaysSincePasswordChange = IntV(400)
           /\ users[i].DaysSinceLastLogon = Absent
      /\ data.Statistics = AbsentStats
      /\ calc_result.status = "ok"
      /\ calc_result.scores["inactive"] = 36
      /\ StoredSum(risk_scores) = 36
      /\ overall_result.status = "ok"
      /\ overall_result.score = 3
      /\ overall_result.label = "Low Risk"

\* C18: the delegation sub-score is 15 for every user with the unconstrained or
\* the constrained delegation flag plus 20 for every computer that is no domain
\* controller and has the unconstrained flag, the constrained flag or a
\* non-empty list of constrained-delegation targets; a domain controller adds
\* nothing and a record with several settings is counted once.  Stated for
\* snapshots whose ConstrainedDelegation fields are lists or missing.
C18_DelegationScore ==
  LET users == UsersOf(data)
      comps == ComputersOf(data)
      Set(v) == v.k = "bool" /\ v.n = 1
      UserCounts(u) == Set(u.TrustedForDelegation) \/ Set(u.TrustedToAuthForDelegation)
      CompCounts(c) ==
        /\ ~Set(c.IsDomainController)
        /\ \/ Set(c.TrustedForDelegation)
           \/ Set(c.TrustedToAuthForDelegation)
           \/ c.ConstrainedDelegation.k = "list" /\ c.ConstrainedDelegation.l # <<>>
  IN  ( /\ calc_result.status = "ok"
        /\ \A j \in 1..Len(comps) : comps[j].ConstrainedDelegation.k \in {"list", "absent"} )
      => calc_result.scores["delegation"] =
           15 * Cardinality({ i \in 1..Len(users) : UserCounts(users[i]) })
             + 20 * Cardinality({ j \in 1..Len(comps) : CompCounts(comps[j]) })

\* C18 witness: a user with both flags, a member server with all three
\* settings and a domain controller with all three have been scored 15 + 20.
C18_Witness ==
  LET users == UsersOf(data)
      comps == ComputersOf(data)
      All3(c) ==
        /\ c.TrustedForDelegation = BoolV(TRUE)
        /\ c.TrustedToAuthForDelegation = BoolV(TRUE)
        /\ c.ConstrainedDelegation.l # <<>>
  IN  /\ calc_result.status = "ok"
      /\ calc_result.scores["delegation"] = 35
      /\ Len(users) = 1
      /\ users[1].TrustedForDelegation = BoolV(TRUE)
      /\ users[1].TrustedToAuthForDelegation = BoolV(TRUE)
      /\ \E j, k \in 1..Len(comps) :
           /\ All3(comps[j]) /\ comps[j].IsDomainController = Absent
           /\ All3(comps[k]) /\ comps[k].IsDomainController = BoolV(TRUE)

\* C19: no call of calculate_risk_scores, get_overall_risk_score or
\* generate_graph_visualization changes the snapshot held by the generator:
\* after every step self.data, with every user, computer and group record, is
\* what it was before the step, hence what the generator was constructed with.
C19_SnapshotUnchanged == [][data' = data]_vars

\* C19 witness: all three methods have run and returned on a snapshot with
\* users, computers and groups, and the graph holds more than the domain.
C19_Witness ==
  /\ calc_result.status = "ok"
  /\ overall_result.status = "ok"
  /\ graph_result.status = "ok"
  /\ UsersOf(data) # <<>>
  /\ ComputersOf(data) # <<>>
  /\ SectionItems(data.SecurityGroups) # <<>>
  /\ Len(graph_result.nodes) > 2

\* the tier of a user by the first rule that matches, read off the record
Tier(u) ==
  LET Set(v) == v.k = "bool" /\ v.n = 1
      Has(v, x) == v.k = "list" /\ \E m \in 1..Len(v.l) : v.l[m] = x
  IN  IF u.SPNs.k = "list" /\ u.SPNs.l # <<>> THEN "high"
      ELSE IF Set(u.TrustedForDelegation) \/ Set(u.TrustedToAuthForDelegation) THEN "high"
      ELSE IF Has(u.MemberOf, DomainAdmins) \/ Has(u.MemberOf, EnterpriseAdmins) THEN "high"
      ELSE IF Has(u.EncryptionTypes, DES) \/ Has(u.EncryptionTypes, RC4) THEN "medium"
      ELSE "low"

\* a user record whose SPNs and EncryptionTypes are lists or missing
ListsWellShaped(u) ==
  /\ u.SPNs.k \in {"list", "absent"}
  /\ u.EncryptionTypes.k \in {"list", "absent"}

\* C20: the tier of a user is that of the first matching rule (SPNs -> high,
\* delegation flag -> high, Domain Admins or Enterprise Admins -> high, DES or
\* RC4 among the encryption types -> medium, else low); the user nodes of the
\* graph are, in snapshot order, exactly the users of tier high or medium or in
\* Domain Admins, each with its tier as risk, and the edges labelled "Member"
\* are, in the same order, one edge from the domain node to each of them.  The
\* forced-DES-only flag plays no part.  Stated for users whose SPNs and
\* EncryptionTypes are lists or missing.
C20_UserInclusion ==
  LET users == UsersOf(data)
      Included(u) ==
        \/ Tier(u) \in {"high", "medium"}
        \/ u.MemberOf.k = "list" /\ InList(DomainAdmins, u.MemberOf.l)
      included == SelectSeq(users, Included)
      userNodes == SelectSeq(graph_result.nodes, LAMBDA n : n.type = "user")
      memberEdges == SelectSeq(graph_result.edges, LAMBDA e : e.label = "Member")
  IN  ( /\ graph_result.status = "ok"
        /\ \A i \in 1..Len(users) : ListsWellShaped(users[i]) )
      => /\ Len(userNodes) = Len(included)
         /\ Len(memberEdges) = Len(included)
         /\ \A i \in 1..Len(included) :
              /\ userNodes[i].id = UserNodeId(included[i])
              /\ userNodes[i].risk = Tier(included[i])
              /\ memberEdges[i].from = DomainId(data)
              /\ memberEdges[i].to = UserNodeId(included[i])

\* C20 witness: a drawn snapshot of two users, one with RC4 among its
\* encryption types that is a node of risk medium with its Member edge, and
\* one of tier low that is no node.
C20_Witness ==
  LET users == UsersOf(data)
      userNodes == SelectSeq(graph_result.nodes, LAMBDA n : n.type = "user")
  IN  /\ graph_result.status = "ok"
      /\ Len(users) = 2
      /\ \E i \in 1..2 : Tier(users[i]) = "low"
      /\ \E i \in 1..2 : InList(RC4, users[i].EncryptionTypes.l)
      /\ Len(userNodes) = 1
      /\ userNodes[1].risk = "medium"
      /\ \E e \in 1..Len(graph_result.edges) :
           /\ graph_result.edges[e].label = "Member"
           /\ graph_result.edges[e].to = userNodes[1].id

GroupsOf(d) == SectionItems(d.SecurityGroups)

\* the positions of the edges that carry one label
EdgesLabelled(edges, label) == { e \in 1..Len(edges) : edges[e].label = label }

\* a user that the builder is to draw: tier high or medium, or a Domain Admin
DrawnUser(u) ==
  \/ Tier(u) \in {"high", "medium"}
  \/ u.MemberOf.k = "list" /\ InList(DomainAdmins, u.MemberOf.l)

\* a group record whose name is one of the four privileged names
NamedPrivileged(gr) ==
  /\ gr.Name.k = "str"
  /\ gr.Name.s \in { DomainAdmins, EnterpriseAdmins, SchemaAdmins, AccountOperators }

\* the member entries (group position, entry position) of the privileged groups
\* whose account name is the account name of a drawn user
DrawnMembers(d) ==
  { p \in UNION { { <<i, j>> : j \in 1..Len(MemberItems(GroupsOf(d)[i])) } :
                   i \in 1..Len(GroupsOf(d)) } :
      /\ NamedPrivileged(GroupsOf(d)[p[1]])
      /\ LET m == MemberItems(GroupsOf(d)[p[1]])[p[2]]
         IN  /\ m.k = "str" /\ m.s # <<>>
             /\ \E i \in 1..Len(UsersOf(d)) :
                  DrawnUser(UsersOf(d)[i]) /\ UsersOf(d)[i].SamAccountName = m }

\* the edge that a member entry is to produce
MemberEdgeKey(d, p) ==
  << GroupId(GroupsOf(d)[p[1]].Name.s),
     UserId(MemberItems(GroupsOf(d)[p[1]])[p[2]]) >>

\* C21: the group nodes are, in snapshot order, the group records named
\* "Domain Admins", "Enterprise Admins", "Schema Admins" or "Account
\* Operators"; each has one "Contains" edge from the domain node; and the
\* "MemberOf" edges are one edge from the group to the user for exactly those
\* entries of its member list whose account name is that of an included user.
C21_GroupNodes ==
  LET groups == GroupsOf(data)
      privileged == SelectSeq(groups, NamedPrivileged)
      groupNodes == SelectSeq(graph_result.nodes, LAMBDA n : n.type = "group")
      contains ==
        SelectSeq(graph_result.edges,
                  LAMBDA e : e.label = "Contains"
                               /\ \E i \in 1..Len(groupNodes) : groupNodes[i].id = e.to)
      memberOf == EdgesLabelled(graph_result.edges, "MemberOf")
      EdgesOn(key) ==
        { e \in memberOf :
            <<graph_result.edges[e].from, graph_result.edges[e].to>> = key }
  IN  ( /\ graph_result.status = "ok"
        /\ \A i \in 1..Len(UsersOf(data)) : ListsWellShaped(UsersOf(data)[i]) )
      => /\ Len(groupNodes) = Len(privileged)
         /\ Len(contains) = Len(privileged)
         /\ \A i \in 1..Len(privileged) :
              /\ groupNodes[i].id = GroupId(privileged[i].Name.s)
              /\ contains[i].from = DomainId(data)
              /\ contains[i].to = GroupId(privileged[i].Name.s)
         /\ Cardinality(memberOf) = Cardinality(DrawnMembers(data))
         /\ \A p \in DrawnMembers(data) :
              Cardinality(EdgesOn(MemberEdgeKey(data, p)))
                = Cardinality({ q \in DrawnMembers(data) :
                                  MemberEdgeKey(data, q) = MemberEdgeKey(data, p) })

\* a user record with the unconstrained or the constrained delegation flag
DelegationFlagged(u) ==
  \/ u.TrustedForDelegation.k = "bool" /\ u.TrustedForDelegation.n = 1
  \/ u.TrustedToAuthForDelegation.k = "bool" /\ u.TrustedToAuthForDelegation.n = 1

\* C22: for every included user with a delegation flag and every computer node
\* there is exactly one "DelegatesTo" edge from the user to the computer, with
\* the attack-path flag set: the DelegatesTo edges are as many as delegating
\* included users times computer nodes, and none starts at a user without a
\* delegation flag or ends at a node that is no computer.
C22_DelegationEdges ==
  LET users == UsersOf(data)
      delegating == { i \in 1..Len(users) : DrawnUser(users[i]) /\ DelegationFlagged(users[i]) }
      compNodes == { n \in 1..Len(graph_result.nodes) : graph_result.nodes[n].type = "computer" }
      delegates == EdgesLabelled(graph_result.edges, "DelegatesTo")
  IN  ( /\ graph_result.status = "ok"
        /\ \A i \in 1..Len(users) : ListsWellShaped(users[i]) )
      => /\ Cardinality(delegates) = Cardinality(delegating) * Cardinality(compNodes)
         /\ \A i \in delegating : \A n \in compNodes :
              Cardinality({ e \in delegates :
                              /\ graph_result.edges[e].from = UserNodeId(users[i])
                              /\ graph_result.edges[e].to = graph_result.nodes[n].id })
                = Cardinality({ j \in delegating : UserNodeId(users[j]) = UserNodeId(users[i]) })
                    * Cardinality({ m \in compNodes :
                                      graph_result.nodes[m].id = graph_result.nodes[n].id })
         /\ \A e \in delegates :
              /\ graph_result.edges[e].attackPath
              /\ \E i \in delegating : graph_result.edges[e].from = UserNodeId(users[i])
              /\ \E n \in compNodes : graph_result.edges[e].to = graph_result.nodes[n].id

\* the ordered pairs of consecutive node ids of the findings
ConsecutivePairs(paths) ==
  UNION { { << paths[p].path[i], paths[p].path[i + 1] >> :
              i \in 1..(Len(paths[p].path) - 1) } :
          p \in 1..Len(paths) }

\* C23: after the flagging step an edge is flagged exactly when it was flagged
\* at construction or its (from, to) pair is a consecutive pair of the path of
\* an emitted finding; the step works on the finished edges and findings,
\* clears no flag, adds or removes no node, edge or finding, and a second
\* application changes nothing.
C23_EdgeFlagging ==
  graph_result.status = "ok" =>
    LET built == BuildGraph(data)
        after == graph_result.edges
        paths == graph_result.attack_paths
    IN  /\ graph_result.nodes = built.nodes
        /\ paths = DetectAttackPaths(data, built)
        /\ Len(after) = Len(built.edges)
        /\ \A e \in 1..Len(after) :
             /\ after[e].from = built.edges[e].from
             /\ after[e].to = built.edges[e].to
             /\ after[e].label = built.edges[e].label
             /\ after[e].attackPath <=>
                  ( \/ built.edges[e].attackPath
                    \/ <<after[e].from, after[e].to>> \in ConsecutivePairs(paths) )
        /\ MarkEdges(after, paths) = after

\* C23 witness: a drawn graph with a two-node finding, edges flagged at
\* construction that are still flagged, and edges that are not flagged.
C23_Witness ==
  /\ graph_result.status = "ok"
  /\ ConsecutivePairs(graph_result.attack_paths) # {}
  /\ \E e \in 1..Len(graph_result.edges) :
       graph_result.edges[e].attackPath /\ graph_result.edges[e].label = "DelegatesTo"
  /\ \E e \in 1..Len(graph_result.edges) :
       ~graph_result.edges[e].attackPath /\ graph_result.edges[e].label = "MemberOf"

\* the number of the rule that emits a finding, by its type and severity
RuleOf(f) ==
  CASE f.type = "Group Membership" -> 1
    [] f.type = "Kerberoasting" -> 2
    [] f.type \in {"Unconstrained Delegation", "Constrained Delegation"}
         /\ f.severity = "high" -> 3
    [] f.type = "AS-REP Roasting" -> 4
    [] f.type = "Unconstrained Delegation" /\ f.severity = "critical" -> 5
    [] OTHER -> 0

\* the node ids of the records a rule walks, in snapshot order
RecordIds(d, rule) ==
  IF rule = 5
    THEN [j \in 1..Len(ComputersOf(d)) |-> CompId(ComputersOf(d)[j])]
    ELSE [i \in 1..Len(UsersOf(d)) |-> UserNodeId(UsersOf(d)[i])]

\* C24: in the attack-path list the Group Membership findings come first, then
\* the Kerberoasting findings, then the user delegation findings, then the
\* AS-REP Roasting findings, then the computer Unconstrained Delegation
\* findings; two findings of one rule stand in the order of their records in
\* the Users or Computers list of the snapshot.
C24_EmissionOrder ==
  graph_result.status = "ok" =>
    LET paths == graph_result.attack_paths
    IN  \A p, q \in 1..Len(paths) :
          p < q =>
            /\ RuleOf(paths[p]) \in 1..5
            /\ RuleOf(paths[p]) <= RuleOf(paths[q])
            /\ RuleOf(paths[p]) = RuleOf(paths[q]) =>
                 LET ids == RecordIds(data, RuleOf(paths[p]))
                 IN  \E i, j \in 1..Len(ids) :
                       /\ i < j
                       /\ ids[i] = paths[p].path[1]
                       /\ ids[j] = paths[q].path[1]

\* C24 witness: every rule has emitted two findings in one run.
C24_Witness ==
  /\ graph_result.status = "ok"
  /\ \A r \in 1..5 :
       Cardinality({ p \in 1..Len(graph_result.attack_paths) :
                       RuleOf(graph_result.attack_paths[p]) = r }) = 2

\* C25: every user with the unconstrained or the constrained delegation flag
\* gets exactly one delegation finding of severity "high" whose path is its
\* node id alone; the type is "Unconstrained Delegation" when the unconstrained
\* flag is set, also next to the constrained one, and "Constrained Delegation"
\* when the constrained flag alone is set; Administrator, krbtgt and Guest are
\* not exempt.  The findings on one node id are as many as the flagged records
\* that carry it.
C25_UserDelegationRule ==
  LET users == UsersOf(data)
      paths == graph_result.attack_paths
      Unconstrained(u) ==
        u.TrustedForDelegation.k = "bool" /\ u.TrustedForDelegation.n = 1
      TypeOf(u) ==
        IF Unconstrained(u) THEN "Unconstrained Delegation" ELSE "Constrained Delegation"
      Found(id, type) ==
        { p \in 1..Len(paths) :
            /\ RuleOf(paths[p]) = 3
            /\ paths[p].type = type
            /\ paths[p].path = <<id>> }
  IN  graph_result.status = "ok" =>
        /\ \A i \in 1..Len(users) :
             DelegationFlagged(users[i]) =>
               Cardinality(Found(UserNodeId(users[i]), TypeOf(users[i])))
                 = Cardinality({ j \in 1..Len(users) :
                                   /\ DelegationFlagged(users[j])
                                   /\ UserNodeId(users[j]) = UserNodeId(users[i])
                                   /\ TypeOf(users[j]) = TypeOf(users[i]) })
        /\ Cardinality({ p \in 1..Len(paths) : RuleOf(paths[p]) = 3 })
             = Cardinality({ i \in 1..Len(users) : DelegationFlagged(users[i]) })

\* C25 witness: a run on two delegating users, one with the unconstrained and
\* one with the constrained flag alone, each with its finding.
C25_Witness ==
  LET paths == graph_result.attack_paths
  IN  /\ graph_result.status = "ok"
      /\ \E p, q \in 1..Len(paths) :
           /\ paths[p].type = "Unconstrained Delegation" /\ paths[p].severity = "high"
           /\ paths[q].type = "Constrained Delegation" /\ paths[q].severity = "high"
           /\ Len(paths[p].path) = 1 /\ Len(paths[q].path) = 1

\* C26: both ends of every edge of the graph are ids of nodes of the graph,
\* whatever the snapshot: the domain, membership and delegation steps leave no
\* dangling edge.
C26_NoDanglingEdge ==
  graph_result.status = "ok" =>
    \A e \in 1..Len(graph_result.edges) :
      /\ graph_result.edges[e].from \in NodeIds(graph_result.nodes)
      /\ graph_result.edges[e].to \in NodeIds(graph_result.nodes)

\* C26 witness: a drawn graph with edges of all four labels, and a group that
\* lists a member that is no node.
C26_Witness ==
  /\ graph_result.status = "ok"
  /\ \A l \in {"Member", "Contains", "MemberOf", "DelegatesTo"} :
       EdgesLabelled(graph_result.edges, l) # {}
  /\ \E i \in 1..Len(GroupsOf(data)) :
       /\ NamedPrivileged(GroupsOf(data)[i])
       /\ \E m \in 1..Len(MemberItems(GroupsOf(data)[i])) :
            /\ MemberItems(GroupsOf(data)[i])[m].k = "str"
            /\ UserId(MemberItems(GroupsOf(data)[i])[m]) \notin NodeIds(graph_result.nodes)

\* C27: no user node has the tier "low": a Domain Admins member is already of
\* tier high, so the inclusion of Domain Admins members whatever their tier
\* adds no user that the tiers high and medium do not add.
C27_NoLowUserNode ==
  graph_result.status = "ok" =>
    /\ \A n \in 1..Len(graph_result.nodes) :
         graph_result.nodes[n].type = "user" =>
           graph_result.nodes[n].risk \in {"high", "medium"}
    /\ (\A i \in 1..Len(UsersOf(data)) : ListsWellShaped(UsersOf(data)[i])) =>
         /\ Len(SelectSeq(graph_result.nodes, LAMBDA n : n.type = "user"))
              = Len(SelectSeq(UsersOf(data), LAMBDA u : Tier(u) \in {"high", "medium"}))
         /\ \A i \in 1..Len(UsersOf(data)) :
              ( /\ UsersOf(data)[i].MemberOf.k = "list"
                /\ InList(DomainAdmins, UsersOf(data)[i].MemberOf.l) )
              => Tier(UsersOf(data)[i]) = "high"

\* C27 witness: a user whose only weakness is its Domain Admins membership,
\* protected or not, is a node of tier high.
C27_Witness ==
  /\ graph_result.status = "ok"
  /\ Len(UsersOf(data)) = 1
  /\ InList(DomainAdmins, UsersOf(data)[1].MemberOf.l)
  /\ UsersOf(data)[1].SPNs = Absent
  /\ UsersOf(data)[1].EncryptionTypes = Absent
  /\ UsersOf(data)[1].TrustedForDelegation = Absent
  /\ \E n \in 1..Len(graph_result.nodes) :
       graph_result.nodes[n].type = "user" /\ graph_result.nodes[n].risk = "high"

\* C28: get_overall_risk_score reads what the most recent calculate_risk_scores
\* call of the same generator stored: before any such call has returned it
\* gives the score 0 and the label "Low Risk" for every snapshot, after one it
\* gives the value derived from the sub-scores that call returned, and a call
\* of generate_graph_visualization changes neither the stored sub-scores nor
\* what the next get_overall_risk_score returns.
C28_OverallFollowsLastScoring ==
  [][ /\ GetOverallRiskScore =>
           IF calc_result.status = "ok"
             THEN ScoreMatchesSum(overall_result', StoredSum(calc_result.scores))
             ELSE /\ overall_result'.score = 0
                  /\ overall_result'.label = "Low Risk"
      /\ (graph_result' # graph_result) =>
           /\ risk_scores' = risk_scores
           /\ OverallRiskScore(risk_scores') = OverallRiskScore(risk_scores) ]_vars

\* C28 witness: the overall score was read as 0 on a fresh generator, and then
\* the scoring stored sub-scores that sum to 300 or more and the graph was drawn.
C28_Witness ==
  /\ overall_result.status = "ok"
  /\ overall_result.score = 0
  /\ calc_result.status = "ok"
  /\ StoredSum(risk_scores) >= 300
  /\ graph_result.status = "ok"

\* C29: a Group Membership finding flags no edge.  Its path is the user id
\* followed by the id of the Domain Admins group, no edge of the graph runs
\* from that user to that group (the membership edge runs from the group to
\* the user), and after the flagging step the flagged edges are exactly the
\* DelegatesTo edges: no Member, Contains or MemberOf edge is flagged.
C29_MembershipFlagsNoEdge ==
  graph_result.status = "ok" =>
    LET paths == graph_result.attack_paths
        edges == graph_result.edges
    IN  /\ \A p \in FindingsOfType(paths, "Group Membership") :
             /\ Len(paths[p].path) = 2
             /\ paths[p].path[2] = GroupId(DomainAdmins)
             /\ \A e \in 1..Len(edges) :
                  ~(edges[e].from = paths[p].path[1] /\ edges[e].to = paths[p].path[2])
        /\ \A e \in 1..Len(edges) :
             /\ edges[e].label \in {"Member", "Contains", "MemberOf", "DelegatesTo"}
             /\ edges[e].attackPath <=> edges[e].label = "DelegatesTo"

\* C29 witness: a Group Membership finding for a user to whom the Domain Admins
\* group has a MemberOf edge, which stays unflagged next to a flagged
\* DelegatesTo edge.
C29_Witness ==
  /\ graph_result.status = "ok"
  /\ \E p \in FindingsOfType(graph_result.attack_paths, "Group Membership") :
       \E e \in EdgesLabelled(graph_result.edges, "MemberOf") :
         /\ graph_result.edges[e].from = graph_result.attack_paths[p].path[2]
         /\ graph_result.edges[e].to = graph_result.attack_paths[p].path[1]
         /\ ~graph_result.edges[e].attackPath
  /\ \E e \in EdgesLabelled(graph_result.edges, "DelegatesTo") :
       graph_result.edges[e].attackPath
  /\ EdgesLabelled(graph_result.edges, "Contains") # {}
  /\ EdgesLabelled(graph_result.edges, "Member") # {}

\* the positions of the group records named "Domain Admins"
DomainAdminsGroups(d) ==
  { i \in 1..Len(GroupsOf(d)) :
      GroupsOf(d)[i].Name.k = "str" /\ GroupsOf(d)[i].Name.s = DomainAdmins }

\* a user whose own membership list names "Domain Admins"
OwnListNamesAdmins(u) == u.MemberOf.k = "list" /\ InList(DomainAdmins, u.MemberOf.l)

\* a user whose account name is an entry of the member list of a group record
\* named "Domain Admins"
ListedByGroup(d, u) ==
  \E i \in DomainAdminsGroups(d) :
    \E j \in 1..Len(MemberItems(GroupsOf(d)[i])) :
      /\ MemberItems(GroupsOf(d)[i])[j].k = "str"
      /\ MemberItems(GroupsOf(d)[i])[j] = u.SamAccountName

\* the users that have a Group Membership finding
UsersWithMembershipFinding(d, paths) ==
  { u \in 1..Len(UsersOf(d)) :
      \E p \in FindingsOfType(paths, "Group Membership") :
        paths[p].path[1] = UserId(UserSam(UsersOf(d)[u])) }

\* C30: Group Membership findings need the group section.  When no record of
\* SecurityGroups is named "Domain Admins" there is no Group Membership
\* finding, whatever the users' membership lists hold; when there is one, the
\* finding of a user is decided by the user's own MemberOf list: every finding
\* belongs to a user whose own list names "Domain Admins", and every named
\* user other than "Administrator" whose own list names it has a finding,
\* listed in the member list of the group or not.
C30_FindingNeedsGroupSection ==
  graph_result.status = "ok" =>
    LET paths == graph_result.attack_paths
        users == UsersOf(data)
    IN  /\ DomainAdminsGroups(data) = {} =>
             FindingsOfType(paths, "Group Membership") = {}
        /\ \A p \in FindingsOfType(paths, "Group Membership") :
             \E u \in 1..Len(users) :
               /\ OwnListNamesAdmins(users[u])
               /\ paths[p].path[1] = UserId(UserSam(users[u]))
        /\ DomainAdminsGroups(data) # {} =>
             \A u \in 1..Len(users) :
               ( /\ users[u].SamAccountName.k = "str"
                 /\ users[u].SamAccountName.s # <<>>
                 /\ Lower(users[u].SamAccountName.s) # NameAdminLower
                 /\ OwnListNamesAdmins(users[u]) )
               => u \in UsersWithMembershipFinding(data, paths)

\* C30 witness: next to a group record named "Domain Admins", a user whose own
\* list names the group has a finding without being listed by the group, and a
\* drawn user listed by the group whose own list does not name it has none.
C30_Witness ==
  /\ graph_result.status = "ok"
  /\ DomainAdminsGroups(data) # {}
  /\ \E u \in UsersWithMembershipFinding(data, graph_result.attack_paths) :
       ~ListedByGroup(data, UsersOf(data)[u])
  /\ \E u \in 1..Len(UsersOf(data)) :
       /\ ListedByGroup(data, UsersOf(data)[u])
       /\ ~OwnListNamesAdmins(UsersOf(data)[u])
       /\ u \notin UsersWithMembershipFinding(data, graph_result.attack_paths)
       /\ \E e \in EdgesLabelled(graph_result.edges, "MemberOf") :
            graph_result.edges[e].to = UserNodeId(UsersOf(data)[u])

====
